---------------------------- MODULE Spec2Model ----------------------------
(***************************************************************************)
(* A model of the signal-generation core of the AI trading bot:            *)
(*   src/components/TradingBotEngine.ts  (the engine the app imports; it   *)
(*                                        is called "enhanced" below),     *)
(*   src/unnamed/part_000                (the same class without the ML    *)
(*                                        model registry: "basic"),        *)
(*   src/components/MLModelTraining.ts   (the feed-forward network),       *)
(*   src/components/DataCollection.ts    (news sentiment).                 *)
(*                                                                         *)
(* Numbers.  The code computes with IEEE doubles.  The model computes with *)
(* exact fixed-point integers and keeps the three non-numbers that decide  *)
(* the behaviour of the code: NaN, null and undefined.  Rounding of the    *)
(* doubles is not modelled.                                                *)
(*   - a confidence, a weight of the combination, a sentiment score and a  *)
(*     volatility are counted in units of 1/ConfUnit;                      *)
(*   - a combined confidence and a reported confidence are counted in      *)
(*     units of 1/ConfUnit^2 (the product of a confidence and a weight);   *)
(*   - a price is counted in thousandths, an entry price, a stop loss and  *)
(*     a take profit in units of 1/(1000 * RiskUnit).                      *)
(***************************************************************************)
EXTENDS Integers, Sequences, FiniteSets, TLC

(***************************************************************************)
(* Fixed-point units (not program constants).                              *)
(***************************************************************************)
ConfUnit == 6 * 100
ConfUnit2 == ConfUnit * ConfUnit
RiskUnit == ConfUnit * 2000

(***************************************************************************)
(* The values of JavaScript that are not finite numbers.                   *)
(***************************************************************************)
NaN == 0 - 1000000007
Null == 0 - 1000000008
Undefined == 0 - 1000000009

\* The null of a field whose other values are strings (actualOutcome: null,
\* 'CALL' or 'PUT').
JsonNull == "null"

IsNumber(x) == x \notin {NaN, Null, Undefined}

\* ToNumber: null is 0, undefined is NaN.
ToNumber(x) == IF x = Null THEN 0 ELSE IF x = Undefined THEN NaN ELSE x

\* a * b and a + b of JavaScript, on fixed-point integers.
JsMul(a, b) ==
    LET x == ToNumber(a)
        y == ToNumber(b)
    IN  IF x = NaN \/ y = NaN THEN NaN ELSE x * y

JsAdd(a, b) ==
    LET x == ToNumber(a)
        y == ToNumber(b)
    IN  IF x = NaN \/ y = NaN THEN NaN ELSE x + y

\* a / b of JavaScript where the quotient is a ratio scaled by `scale`:
\* 0 / 0 is NaN.  (x / 0 with x # 0 is an infinity; no division of the
\* model meets it.)
JsDiv(a, b, scale) ==
    LET x == ToNumber(a)
        y == ToNumber(b)
    IN  IF x = NaN \/ y = NaN \/ y = 0 THEN NaN ELSE (x * scale) \div y

\* Comparisons of JavaScript: every comparison with NaN is false.
JsLt(a, b) == a # NaN /\ b # NaN /\ a < b
JsGt(a, b) == a # NaN /\ b # NaN /\ a > b
JsLe(a, b) == a # NaN /\ b # NaN /\ a <= b
JsGe(a, b) == a # NaN /\ b # NaN /\ a >= b

Abs(x) == IF x < 0 THEN 0 - x ELSE x

\* The element of a one-element set.  { F(v) : v \in {e} } computes e once
\* where F uses it many times.
Only(S) == CHOOSE v \in S : TRUE
JsAbs(x) == IF x = NaN THEN NaN ELSE Abs(x)


(***************************************************************************)
(* The rule-based scorer.  `ind` is a TechnicalIndicators snapshot, `price`*)
(* the price of the current bar.  rsi and stochastic are percentages, the  *)
(* other fields prices.                                                    *)
(***************************************************************************)
\* A variant of RuleCheck to try the checks against: a bearish check counts
\* without a reason.
RuleCheckVariant(bullish, bearish, bullReason, bearReason) ==
    IF bullish THEN [bull |-> 1, bear |-> 0, reasoning |-> <<bullReason>>]
    ELSE IF bearish THEN [bull |-> 0, bear |-> 1, reasoning |-> <<>>]
    ELSE [bull |-> 0, bear |-> 0, reasoning |-> <<>>]

RuleCheck(bullish, bearish, bullReason, bearReason) ==
    IF bullish THEN [bull |-> 1, bear |-> 0, reasoning |-> <<bullReason>>]
    ELSE IF bearish THEN [bull |-> 0, bear |-> 1, reasoning |-> <<bearReason>>]
    ELSE [bull |-> 0, bear |-> 0, reasoning |-> <<>>]

\* |price - level| / price < 0.01
PriceNear(price, level) ==
    JsLt(JsMul(JsAbs(JsAdd(price, JsMul(-1, level))), 100), price)

RuleChecks(ind, price) ==
    << RuleCheck(JsLt(ind.rsi, 30), JsGt(ind.rsi, 70),
                 "RSI oversold", "RSI overbought"),
       RuleCheck(JsGt(ind.macd.macd, ind.macd.signal) /\ JsGt(ind.macd.histogram, 0),
                 JsLt(ind.macd.macd, ind.macd.signal) /\ JsLt(ind.macd.histogram, 0),
                 "MACD bullish crossover", "MACD bearish crossover"),
       RuleCheck(JsLe(price, ind.bollingerBands.lower),
                 JsGe(price, ind.bollingerBands.upper),
                 "Price at lower Bollinger Band", "Price at upper Bollinger Band"),
       RuleCheck(JsGt(ind.ema12, ind.ema26) /\ JsGt(price, ind.sma20),
                 JsLt(ind.ema12, ind.ema26) /\ JsLt(price, ind.sma20),
                 "Price above SMA20 with EMA12 > EMA26",
                 "Price below SMA20 with EMA12 < EMA26"),
       RuleCheck(JsLt(ind.stochastic.k, 20) /\ JsLt(ind.stochastic.d, 20),
                 JsGt(ind.stochastic.k, 80) /\ JsGt(ind.stochastic.d, 80),
                 "Stochastic oversold", "Stochastic overbought"),
       RuleCheck(PriceNear(price, ind.support),
                 PriceNear(price, ind.resistance),
                 "Price near support level", "Price near resistance level") >>

RECURSIVE SumBull(_), SumBear(_), JoinReasons(_)
SumBull(cs) == IF cs = <<>> THEN 0 ELSE Head(cs).bull + SumBull(Tail(cs))
SumBear(cs) == IF cs = <<>> THEN 0 ELSE Head(cs).bear + SumBear(Tail(cs))
JoinReasons(cs) ==
    IF cs = <<>> THEN <<>> ELSE Head(cs).reasoning \o JoinReasons(Tail(cs))

analyzeRuleBasedSignals(ind, price) ==
    LET cs == RuleChecks(ind, price)
        bullishSignals == SumBull(cs)
        bearishSignals == SumBear(cs)
        totalSignals == bullishSignals + bearishSignals
    IN  [ confidence |-> IF totalSignals = 0 THEN ConfUnit \div 2
                         ELSE (bullishSignals * ConfUnit) \div totalSignals,
          reasoning |-> JoinReasons(cs),
          bullishSignals |-> bullishSignals,
          bearishSignals |-> bearishSignals ]

(***************************************************************************)
(* The combination of the model's prediction, the rule confidence and the  *)
(* sentiment, and what generateTradingSignal derives from it.              *)
(*   ml    the model's prediction (1/ConfUnit, or NaN)                     *)
(*   rule  analyzeRuleBasedSignals(..).confidence (1/ConfUnit)             *)
(*   sent  sentiment.overallSentiment (1/ConfUnit, a multiple of 10)       *)
(***************************************************************************)
SentimentWeight(sent) == Abs(sent) \div 10
MlWeightEnhanced(sent) == (6 * ConfUnit) \div 10 - SentimentWeight(sent)
MlWeightBasic == (6 * ConfUnit) \div 10
RuleWeight == (4 * ConfUnit) \div 10

combinedConfidenceEnhanced(ml, rule, sent) ==
    JsAdd(JsAdd(JsMul(ml, MlWeightEnhanced(sent)), rule * RuleWeight),
          (IF sent > 0 THEN SentimentWeight(sent) ELSE 0 - SentimentWeight(sent))
             * ConfUnit)

combinedConfidenceBasic(ml, rule) ==
    JsAdd(JsMul(ml, MlWeightBasic), rule * RuleWeight)

\* A variant of the thresholds, of the direction and of the take-profit
\* distance, to try the checks against: the enhanced engine with the call
\* threshold of the basic one, a direction decided at 0.5, a take profit at
\* twice 0.025 * volatility * price.
ThresholdVariant == (6 * ConfUnit2) \div 10
DirectionVariant(engine, combined) ==
    IF JsGt(combined, ConfUnit2 \div 2) THEN "CALL"
    ELSE IF JsLt(combined, ConfUnit2 \div 2) THEN "PUT"
    ELSE "none"
ProfitDistanceVariant(engine, vol, price) == JsMul(JsMul(vol, price), 100)

\* The thresholds of the direction, in 1/ConfUnit^2.
CallThresholdEnhanced == (65 * ConfUnit2) \div 100
PutThresholdEnhanced == (35 * ConfUnit2) \div 100
CallThresholdBasic == (6 * ConfUnit2) \div 10
PutThresholdBasic == (4 * ConfUnit2) \div 10

CallThreshold(engine) ==
    IF engine = "enhanced" THEN CallThresholdEnhanced ELSE CallThresholdBasic

PutThreshold(engine) ==
    IF engine = "enhanced" THEN PutThresholdEnhanced ELSE PutThresholdBasic

\* "CALL", "PUT" or "none" (the else branch: return null).
Direction(engine, combined) ==
    IF JsGt(combined, CallThreshold(engine)) THEN "CALL"
    ELSE IF JsLt(combined, PutThreshold(engine)) THEN "PUT"
    ELSE "none"

\* Math.abs(combinedConfidence - 0.5) * 2
SignalConfidence(combined) ==
    JsMul(JsAbs(JsAdd(combined, 0 - (ConfUnit2 \div 2))), 2)

\* The distances of the stop loss and of the take profit from the entry
\* price, in 1/(1000 * RiskUnit); vol is indicators.volatility.
StopDistance(engine, vol, sent, price) ==
    IF engine = "enhanced"
    THEN JsAdd(JsMul(JsMul(vol, price), 30), Abs(sent) * price * 10)
    ELSE JsMul(JsMul(vol, price), 20)

ProfitDistance(engine, vol, price) ==
    IF engine = "enhanced"
    THEN JsMul(JsMul(vol, price), 75)
    ELSE JsMul(JsMul(vol, price), 40)

\* What generateTradingSignal computes once a model prediction, the indicators
\* and the sentiment are at hand: its local combinedConfidence and what it
\* returns, [kind |-> "null"] for `return null` or the TradingSignal.  The basic
\* engine has no sentiment: it is called with sent = 0.  (The line of reasoning
\* about economic events is left out: no other field depends on it.)
NullResult == [kind |-> "null"]

BuildSignal(engine, ml, ind, price, sent) ==
    LET ruleBasedSignals == analyzeRuleBasedSignals(ind, price)
        combined == IF engine = "enhanced"
                    THEN combinedConfidenceEnhanced(ml, ruleBasedSignals.confidence, sent)
                    ELSE combinedConfidenceBasic(ml, ruleBasedSignals.confidence)
        direction == Direction(engine, combined)
        entry == price * RiskUnit
        stop == StopDistance(engine, ind.volatility, sent, price)
        profit == ProfitDistance(engine, ind.volatility, price)
    IN  [ combinedConfidence |-> combined,
          result |->
            IF direction = "none" THEN NullResult
            ELSE [ kind |-> "signal",
                   direction |-> direction,
                   confidence |-> SignalConfidence(combined),
                   entryPrice |-> entry,
                   stopLoss |-> IF direction = "CALL"
                                THEN JsAdd(entry, JsMul(-1, stop))
                                ELSE JsAdd(entry, stop),
                   takeProfit |-> IF direction = "CALL"
                                  THEN JsAdd(entry, profit)
                                  ELSE JsAdd(entry, JsMul(-1, profit)),
                   reasoning |->
                      <<IF direction = "CALL" THEN "Strong bullish signal"
                        ELSE "Strong bearish signal">>
                      \o (IF engine = "enhanced" /\ Abs(sent) * 10 > 3 * ConfUnit
                          THEN <<"Market sentiment">> ELSE <<>>)
                      \o ruleBasedSignals.reasoning ] ]

(***************************************************************************)
(* The inputs of the signal arithmetic.                                    *)
(*                                                                         *)
(* An indicator snapshot as calculateTechnicalIndicators builds it: the    *)
(* signal line is the EMA of the one-element array [macd], that is macd    *)
(* itself, so the histogram is 0; %D is %K; %K is NaN (0/0) on a window    *)
(* whose highs and lows are all equal; the volatility is a square root     *)
(* times a constant, so it is not negative.                                *)
(***************************************************************************)
Engines == {"enhanced", "basic"}

Price == 10 * 100

RsiValues == {25, 50, 75}
BandValues == { [upper |-> Price + 30, middle |-> Price, lower |-> Price - 30],
                [upper |-> Price + 60, middle |-> Price + 30, lower |-> Price],
                [upper |-> Price, middle |-> Price - 30, lower |-> Price - 60] }
TrendValues == { [ema12 |-> Price + 2, ema26 |-> Price + 1, sma20 |-> Price - 5],
                 [ema12 |-> Price - 2, ema26 |-> Price - 1, sma20 |-> Price + 5],
                 [ema12 |-> Price, ema26 |-> Price, sma20 |-> Price] }
StochasticValues == {10, 50, 90, NaN}
LevelValues == { [support |-> Price - 50, resistance |-> Price + 50],
                 [support |-> Price - 5, resistance |-> Price + 50] }
VolatilityValues == {0, ConfUnit \div 10}

Snapshot(rsi, bands, trend, k, levels, vol) ==
    [ rsi |-> rsi,
      macd |-> [macd |-> trend.ema12 - trend.ema26,
                signal |-> trend.ema12 - trend.ema26,
                histogram |-> 0],
      bollingerBands |-> bands,
      sma20 |-> trend.sma20,
      sma50 |-> trend.sma20,
      ema12 |-> trend.ema12,
      ema26 |-> trend.ema26,
      stochastic |-> [k |-> k, d |-> k],
      volatility |-> vol,
      support |-> levels.support,
      resistance |-> levels.resistance ]

IndicatorSnapshots ==
    { Snapshot(rsi, bands, trend, k, levels, vol) :
        rsi \in RsiValues, bands \in BandValues, trend \in TrendValues,
        k \in StochasticValues, levels \in LevelValues, vol \in VolatilityValues }

\* Model predictions: the sigmoid of a double lies in [0, 1] (it rounds to 0 and
\* to 1 far from 0), and NaN is what a forward pass over NaN yields.
Predictions == {NaN, 0, 6, 150, 200, 300, 400, 450, 594, ConfUnit}

\* Sentiment scores of the interface SentimentAnalysis: -1 to 1.
SentimentScores == {0 - ConfUnit, -180, 0, 60, 180, ConfUnit}

(***************************************************************************)
(* The feed-forward network of MLModelTraining.                            *)
(*                                                                         *)
(* A model is [defined, architecture, weights, biases, trainingHistory].   *)
(* defined = FALSE stands for an instance whose architecture, weights and  *)
(* biases are undefined (loadModel read an object without these fields).   *)
(* weights[l] is the flattened matrix of layer l and biases[l] its vector, *)
(* as sequences from index 1 (the code's index 0).  A feature, a bias, a   *)
(* sum and a hidden activation are counted in units of 1/FeatUnit, a       *)
(* weight in whole units, the output activation in units of 1/ConfUnit.    *)
(***************************************************************************)
FeatUnit == 10 * 10

Layers(arch) == <<arch.inputSize>> \o arch.hiddenLayers \o <<arch.outputSize>>

\* arr[i] of JavaScript for a 0-based index: undefined outside the array.
At(arr, i) == IF i + 1 \in DOMAIN arr THEN arr[i + 1] ELSE Undefined

\* (Math.random() * 2 - 1) * limit: the draw of weight j of layer l under the
\* random seed `seed`, one of -1, 0, 1.
RandomWeight(seed, l, j) == ((seed + l + j) % 3) - 1

initializeWeights(arch, seed) ==
    LET layers == Layers(arch)
    IN  [ weights |-> [ l \in 1..(Len(layers) - 1) |->
                          [ j \in 1..(layers[l] * layers[l + 1]) |->
                              RandomWeight(seed, l, j) ] ],
          biases |-> [ l \in 1..(Len(layers) - 1) |->
                          [ j \in 1..layers[l + 1] |-> 0 ] ] ]

\* new MLModelTraining(symbol, architecture)
NewModel(arch, seed) ==
    [ defined |-> TRUE,
      architecture |-> arch,
      weights |-> initializeWeights(arch, seed).weights,
      biases |-> initializeWeights(arch, seed).biases,
      trainingHistory |-> <<>> ]

\* 1 / (1 + exp(-x)) for x in 1/FeatUnit, in 1/ConfUnit, tabulated per whole
\* unit of x; a double rounds it to 1 from about x = 37 on.
SigmoidTable == <<439, 528, 572, 589, 596>>
SigmoidPos(n) ==
    IF n = 0 THEN ConfUnit \div 2
    ELSE IF n <= Len(SigmoidTable) THEN SigmoidTable[n]
    ELSE IF n < 37 THEN ConfUnit - 1
    ELSE ConfUnit

Sigmoid(x) ==
    LET v == ToNumber(x)
    IN  IF v = NaN THEN NaN
        ELSE IF v >= 0 THEN SigmoidPos(v \div FeatUnit)
        ELSE ConfUnit - SigmoidPos((0 - v) \div FeatUnit)

\* Math.tanh(x), in 1/FeatUnit, tabulated per whole unit of x.
TanhPos(n) == IF n = 0 THEN 0 ELSE IF n = 1 THEN 76 ELSE IF n = 2 THEN 96 ELSE FeatUnit
Tanh(x) ==
    LET v == ToNumber(x)
    IN  IF v = NaN THEN NaN
        ELSE IF v >= 0 THEN TanhPos(v \div FeatUnit)
        ELSE 0 - TanhPos((0 - v) \div FeatUnit)

\* Math.max(0, x): NaN for NaN, 0 for null.
Relu(x) ==
    LET v == ToNumber(x)
    IN  IF v = NaN THEN NaN ELSE IF v > 0 THEN v ELSE 0

activate(x, function_name) ==
    CASE function_name = "relu" -> Relu(x)
      [] function_name = "sigmoid" -> Sigmoid(x)
      [] function_name = "tanh" -> Tanh(x)
      [] OTHER -> x

\* The inner loop over prevNeuron: sum += previousOutput[p] * layerWeights[...]
\* for p = from..to (0-based).  The terms are added by halves of the range:
\* the sum of exact numbers does not depend on the order, and it is NaN as
\* soon as one term is.
RECURSIVE WeightedSum(_, _, _, _, _)
WeightedSum(previousOutput, layerWeights, neuron, from, to) ==
    LET prevLayerSize == Len(previousOutput)
        mid == (from + to) \div 2
    IN  IF from > to THEN 0
        ELSE IF from = to
             THEN JsMul(At(previousOutput, from),
                        At(layerWeights, neuron * prevLayerSize + from))
             ELSE JsAdd(WeightedSum(previousOutput, layerWeights, neuron, from, mid),
                        WeightedSum(previousOutput, layerWeights, neuron, mid + 1, to))

\* The weighted sums of layer `layer` (0-based) over previousOutput.
LayerOutput(model, layer, previousOutput) ==
    LET layerWeights == model.weights[layer + 1]
        layerBiases == model.biases[layer + 1]
    IN  [ n \in 1..Len(layerBiases) |->
            JsAdd(layerBiases[n],
                  WeightedSum(previousOutput, layerWeights, n - 1,
                              0, Len(previousOutput) - 1)) ]

LayerActivation(model, layer, layerOutput) ==
    LET activationFunc == IF layer = Len(model.weights) - 1 THEN "sigmoid"
                          ELSE model.architecture.activationFunction
    IN  [ n \in 1..Len(layerOutput) |-> activate(layerOutput[n], activationFunc) ]

\* forwardPropagate: outputs and activations of every layer, the input first.
\* The code reads previousOutput from outputs[layer], the sums of the layer
\* before, not from activations[layer].
RECURSIVE ForwardFrom(_, _, _, _)
ForwardFrom(model, layer, outputs, activations) ==
    IF layer >= Len(model.weights) THEN [outputs |-> outputs, activations |-> activations]
    ELSE Only({ ForwardFrom(model, layer + 1, nextOutputs,
                            Append(activations,
                                   LayerActivation(model, layer,
                                                   nextOutputs[Len(nextOutputs)])))
                : nextOutputs \in
                    { Append(outputs, LayerOutput(model, layer, outputs[layer + 1])) } })

forwardPropagate(model, input) == ForwardFrom(model, 0, <<input>>, <<input>>)

\* predict throws a TypeError when this.weights is undefined.
PredictThrows(model) == ~model.defined

\* predict: activations[activations.length - 1][0]
predict(model, features) ==
    Only({ At(activations[Len(activations)], 0)
           : activations \in {forwardPropagate(model, features).activations} })

(***************************************************************************)
(* saveModel and loadModel.  What AsyncStorage holds under a key is        *)
(*   [kind |-> "absent"]      no item (getItem returns null),              *)
(*   [kind |-> "unparsable"]  a string JSON.parse throws on,               *)
(*   [kind |-> "object", ..]  the JSON text of an object, by its fields.   *)
(* JSON.stringify writes null for NaN and for undefined in an array, and   *)
(* leaves out a property whose value is undefined; every finite double is  *)
(* written so that JSON.parse reads the same double back.                  *)
(***************************************************************************)
AbsentItem == [kind |-> "absent"]
UnparsableItem == [kind |-> "unparsable"]

JsonNumber(x) == IF x = NaN \/ x = Undefined THEN Null ELSE x
JsonArray(a) == [i \in DOMAIN a |-> JsonNumber(a[i])]
JsonMetrics(m) ==
    [ epoch |-> m.epoch,
      loss |-> JsonNumber(m.loss),
      validationLoss |-> JsonNumber(m.validationLoss) ]

\* JSON.stringify(modelData) of saveModel, as JSON.parse reads it back.
StringifyModel(model) ==
    [ kind |-> "object",
      defined |-> model.defined,
      architecture |-> model.architecture,
      weights |-> [l \in DOMAIN model.weights |-> JsonArray(model.weights[l])],
      biases |-> [l \in DOMAIN model.biases |-> JsonArray(model.biases[l])],
      trainingHistory |->
          [i \in DOMAIN model.trainingHistory |-> JsonMetrics(model.trainingHistory[i])] ]

\* The JSON text "{}": an object without architecture, weights and biases.
EmptyArchitecture ==
    [inputSize |-> 0, hiddenLayers |-> <<>>, outputSize |-> 0,
     activationFunction |-> "relu", epochs |-> 0]
EmptyObjectItem ==
    [ kind |-> "object", defined |-> FALSE, architecture |-> EmptyArchitecture,
      weights |-> <<>>, biases |-> <<>>, trainingHistory |-> <<>> ]

\* loadModel: the model after the call and the value returned.
loadModel(model, stored) ==
    IF stored.kind = "absent" THEN [model |-> model, returned |-> FALSE]
    ELSE IF stored.kind = "unparsable" THEN [model |-> model, returned |-> FALSE]
    ELSE [ model |-> [ defined |-> stored.defined,
                       architecture |-> stored.architecture,
                       weights |-> stored.weights,
                       biases |-> stored.biases,
                       trainingHistory |-> stored.trainingHistory ],
           returned |-> TRUE ]

(***************************************************************************)
(* trainModel.  `data` is the sequence of samples [features, label]; the   *)
(* draws of Math.random are                                                *)
(*   rand.shuffled        the order of the samples after the first sort,   *)
(*   rand.seed            stands for the values training leaves in the     *)
(*                        parameters,                                      *)
(*   rand.validationLoss  the validation loss of each epoch, when finite.  *)
(* The loop over epochs, the history and the early stop are those of the   *)
(* code.  The arithmetic of one batch is summarised: a gradient is the     *)
(* error of a neuron times an activation, the error of the output neuron   *)
(* is prediction - label, and every later error is a sum of products with  *)
(* it; so one sample of the training part whose prediction is NaN makes    *)
(* every gradient NaN, and updateWeights writes NaN into every bias and    *)
(* into every weight a gradient is computed for (index neuron *            *)
(* prevLayerSize + prevNeuron, prevLayerSize the length of the sample in   *)
(* layer 0).  The other weights keep their value.                          *)
(***************************************************************************)
SplitIndex(n) == (n * 8) \div 10

TrainPart(data, rand) ==
    [i \in 1..SplitIndex(Len(data)) |-> data[rand.shuffled[i]]]
ValidationPart(data, rand) ==
    [i \in 1..(Len(data) - SplitIndex(Len(data))) |->
        data[rand.shuffled[SplitIndex(Len(data)) + i]]]

\* (Equal feature vectors have equal predictions: one forward pass each.)
AnyNaNPrediction(model, samples) ==
    \E features \in {samples[i].features : i \in DOMAIN samples} :
        predict(model, features) = NaN

\* The weights of layer l (1-based) a gradient is computed for.
TouchedWeight(model, l, j, sampleLen) ==
    IF l = 1 THEN j <= Len(model.biases[1]) * sampleLen ELSE TRUE

\* The instance after the batches of the epochs; `poisoned` says that a
\* sample of the training part has a NaN prediction.
TrainedParameters(model, trainData, poisoned, rand) ==
    IF trainData = <<>> \/ model.architecture.epochs <= 0 THEN model
    ELSE LET sampleLen == Len(trainData[1].features)
         IN  [ model EXCEPT
                 !.weights =
                   [ l \in DOMAIN model.weights |->
                       [ j \in DOMAIN model.weights[l] |->
                           IF ~TouchedWeight(model, l, j, sampleLen) THEN model.weights[l][j]
                           ELSE IF poisoned THEN NaN
                           ELSE RandomWeight(rand.seed, l, j) ] ],
                 !.biases =
                   [ l \in DOMAIN model.biases |->
                       [ j \in DOMAIN model.biases[l] |->
                           IF poisoned THEN NaN ELSE RandomWeight(rand.seed, l, j) ] ] ]

\* shouldEarlyStop: the mean validation loss of the last 5 epochs is greater
\* than the mean of the 5 before them (the sums are compared: both are
\* divided by 5).
RECURSIVE SumValidationLoss(_, _, _)
SumValidationLoss(history, from, to) ==
    IF from > to THEN 0
    ELSE JsAdd(history[from].validationLoss, SumValidationLoss(history, from + 1, to))

shouldEarlyStop(history) ==
    LET n == Len(history)
    IN  IF n < 10 THEN FALSE
        ELSE JsGt(SumValidationLoss(history, n - 4, n),
                  SumValidationLoss(history, n - 9, n - 5))

\* The metrics of epoch `epoch` (0-based).
EpochMetrics(epoch, trainData, validationData, lossNaN, validationNaN, rand) ==
    [ epoch |-> epoch + 1,
      loss |-> IF trainData = <<>> \/ lossNaN THEN NaN
               ELSE rand.validationLoss[epoch + 1],
      validationLoss |-> IF validationData = <<>> \/ validationNaN THEN NaN
                         ELSE rand.validationLoss[epoch + 1] ]

\* The loop over the epochs: the history it leaves.  Every epoch appends its
\* metrics; the loop breaks after the first epoch (0-based) greater than 20
\* whose history makes shouldEarlyStop true.
StopsAt(full, epoch) == epoch > 20 /\ shouldEarlyStop(SubSeq(full, 1, epoch + 1))

HistoryUntilStop(full) ==
    IF \E epoch \in 0..(Len(full) - 1) : StopsAt(full, epoch)
    THEN SubSeq(full, 1,
                1 + CHOOSE epoch \in 0..(Len(full) - 1) :
                      /\ StopsAt(full, epoch)
                      /\ \A earlier \in 0..(epoch - 1) : ~StopsAt(full, earlier))
    ELSE full

TrainEpochs(epochs, trainData, validationData, lossNaN, validationNaN, rand) ==
    Only({ HistoryUntilStop(full)
           : full \in { [ e \in 1..epochs |->
                            EpochMetrics(e - 1, trainData, validationData,
                                         lossNaN, validationNaN, rand) ] } })

\* The instance once the loop is over, `trained` being the instance with the
\* parameters the batches left.
AfterEpochs(trained, trainData, validationData, poisoned, rand) ==
    Only({ [trained EXCEPT !.trainingHistory =
              TrainEpochs(trained.architecture.epochs, trainData, validationData,
                          poisoned, validationNaN, rand)]
           : validationNaN \in {AnyNaNPrediction(trained, validationData)} })

TrainOnParts(model, trainData, validationData, rand) ==
    Only({ Only({ AfterEpochs(trained, trainData, validationData, poisoned, rand)
                  : trained \in {TrainedParameters(model, trainData, poisoned, rand)} })
           : poisoned \in {AnyNaNPrediction(model, trainData)} })

\* trainModel up to `await this.saveModel()`: the model then, and whether a
\* TypeError was thrown (this.architecture is undefined) after the history was
\* reset.
trainModel(model, data, rand) ==
    IF ~model.defined
    THEN [ model |-> [model EXCEPT !.trainingHistory = <<>>], threw |-> TRUE ]
    ELSE [ model |-> Only({ TrainOnParts(model, trainData, validationData, rand)
                            : trainData \in {TrainPart(data, rand)},
                              validationData \in {ValidationPart(data, rand)} }),
           threw |-> FALSE ]

(***************************************************************************)
(* Feature vectors.  A bar is [price, changePercent]; the entries of a     *)
(* vector are counted in units of 1/FeatUnit.                              *)
(***************************************************************************)
\* Math.min(...data) and Math.max(...data): NaN if an entry is NaN.
JsMin(data) ==
    IF \E i \in DOMAIN data : ToNumber(data[i]) = NaN THEN NaN
    ELSE ToNumber(data[CHOOSE i \in DOMAIN data :
                         \A j \in DOMAIN data : ToNumber(data[i]) <= ToNumber(data[j])])
JsMax(data) ==
    IF \E i \in DOMAIN data : ToNumber(data[i]) = NaN THEN NaN
    ELSE ToNumber(data[CHOOSE i \in DOMAIN data :
                         \A j \in DOMAIN data : ToNumber(data[i]) >= ToNumber(data[j])])

\* normalizeData: 0.5 everywhere on a zero range, else (value - min) / range.
normalizeData(data) ==
    LET min == JsMin(data)
        max == JsMax(data)
        range == JsAdd(max, JsMul(-1, min))
    IN  IF range = 0 THEN [i \in DOMAIN data |-> FeatUnit \div 2]
        ELSE [i \in DOMAIN data |->
                JsDiv(JsAdd(data[i], JsMul(-1, min)), range, FeatUnit)]

\* The 15 technical values both engines normalise, in thousandths.
TechnicalVector(ind, latest) ==
    << ind.rsi * 1000,
       ind.macd.macd * 1000,
       ind.bollingerBands.upper,
       ind.bollingerBands.middle,
       ind.bollingerBands.lower,
       ind.sma20,
       ind.sma50,
       ind.ema12,
       ind.ema26,
       JsMul(ind.stochastic.k, 1000),
       JsMul(ind.stochastic.d, 1000),
       (ind.volatility * 100 * 1000) \div ConfUnit,
       latest.changePercent * 1000,
       JsDiv(latest.price - ind.support, ind.support, 1000),
       JsDiv(ind.resistance - latest.price, latest.price, 1000) >>

\* extractFeatures of the basic engine.
extractFeatures(ind, latest) == normalizeData(TechnicalVector(ind, latest))

\* extractEnhancedFeatures on a non-empty history: the 15 normalised values and
\* four more.  sentiment is [overallSentiment (1/ConfUnit), fearGreedIndex (a
\* percentage)]; the economic calendar of a DataCollection nobody has asked to
\* fetch it is empty, so both impact scores are 0.
extractEnhancedFeatures(ind, latest, sentiment) ==
    normalizeData(TechnicalVector(ind, latest))
      \o << ((sentiment.overallSentiment + ConfUnit) * FeatUnit) \div (2 * ConfUnit),
            (sentiment.fearGreedIndex * FeatUnit) \div 100,
            0,
            0 >>

\* The features of one sample of prepareTrainingData.
SampleFeatures(ind, currentData) ==
    << (ind.rsi * FeatUnit) \div 100,
       Tanh(ind.macd.macd * FeatUnit),
       JsDiv(ind.bollingerBands.upper - currentData.price, currentData.price, FeatUnit),
       JsDiv(ind.bollingerBands.middle - currentData.price, currentData.price, FeatUnit),
       JsDiv(ind.bollingerBands.lower - currentData.price, currentData.price, FeatUnit),
       JsDiv(ind.sma20 - currentData.price, currentData.price, FeatUnit),
       JsDiv(ind.sma50 - currentData.price, currentData.price, FeatUnit),
       JsDiv(ind.ema12 - currentData.price, currentData.price, FeatUnit),
       JsDiv(ind.ema26 - currentData.price, currentData.price, FeatUnit),
       JsDiv(ind.stochastic.k, 100, FeatUnit),
       JsDiv(ind.stochastic.d, 100, FeatUnit),
       Tanh((ind.volatility * 10 * FeatUnit) \div ConfUnit),
       Tanh((currentData.changePercent * FeatUnit) \div 10),
       JsDiv(currentData.price - ind.support, ind.support, FeatUnit),
       JsDiv(ind.resistance - currentData.price, currentData.price, FeatUnit) >>

\* A variant of prepareTrainingData to try the checks against: the label is 1
\* also when the next price is equal.
PrepareVariant(marketDataHistory, indicatorsHistory) ==
    [ i \in 1..(Len(marketDataHistory) - 1) |->
        [ features |-> SampleFeatures(indicatorsHistory[i], marketDataHistory[i]),
          label |-> IF marketDataHistory[i + 1].price >= marketDataHistory[i].price
                    THEN 1 ELSE 0 ] ]

\* prepareTrainingData: one sample per bar but the last, where the indicator
\* history has an entry (`if (!indicators) continue`: the entries are those of
\* the first Len(indicatorsHistory) bars); the label is 1 when the next price
\* is higher.
prepareTrainingData(marketDataHistory, indicatorsHistory) ==
    LET last == IF Len(marketDataHistory) - 1 < Len(indicatorsHistory)
                THEN Len(marketDataHistory) - 1 ELSE Len(indicatorsHistory)
    IN  [ i \in 1..last |->
            [ features |-> SampleFeatures(indicatorsHistory[i], marketDataHistory[i]),
              label |-> IF marketDataHistory[i + 1].price > marketDataHistory[i].price
                        THEN 1 ELSE 0 ] ]

(***************************************************************************)
(* The network of the basic engine: 15 inputs, 32 hidden neurons, all      *)
(* parameters in one array (input weights, hidden biases, output weights,  *)
(* output bias), drawn at construction.  A parameter is counted in whole   *)
(* units; the array of a symbol is given by the seed of its draws.         *)
(***************************************************************************)
BasicInputSize == 15
BasicHiddenSize == 32

ModelWeights(seed) ==
    [ j \in 1..(BasicInputSize * BasicHiddenSize + BasicHiddenSize + BasicHiddenSize + 1) |->
        RandomWeight(seed, 0, j) ]

\* sum += features[i] * weights[h * inputSize + i] for i = from..to, and
\* output += hidden[h] * weights[...] for h = from..to, added by halves of the
\* range as in WeightedSum.
RECURSIVE HiddenSum(_, _, _, _, _), OutputSum(_, _, _, _)
HiddenSum(features, weights, h, from, to) ==
    IF from = to
    THEN JsMul(At(features, from), At(weights, h * BasicInputSize + from))
    ELSE JsAdd(HiddenSum(features, weights, h, from, (from + to) \div 2),
               HiddenSum(features, weights, h, (from + to) \div 2 + 1, to))

Hidden(features, weights) ==
    [ n \in 1..BasicHiddenSize |->
        Relu(JsAdd(HiddenSum(features, weights, n - 1, 0, BasicInputSize - 1),
                   JsMul(At(weights, BasicInputSize * BasicHiddenSize + (n - 1)),
                         FeatUnit))) ]

OutputSum(hidden, weights, from, to) ==
    IF from = to
    THEN JsMul(At(hidden, from),
               At(weights, BasicInputSize * BasicHiddenSize + BasicHiddenSize + from))
    ELSE JsAdd(OutputSum(hidden, weights, from, (from + to) \div 2),
               OutputSum(hidden, weights, (from + to) \div 2 + 1, to))

\* neuralNetworkPredict: 0.5 when the map has no weights under the symbol.
neuralNetworkPredict(features, hasWeights, weights) ==
    IF ~hasWeights THEN ConfUnit \div 2
    ELSE Sigmoid(JsAdd(OutputSum(Hidden(features, weights), weights,
                                 0, BasicHiddenSize - 1),
                       JsMul(weights[Len(weights)], FeatUnit)))

\* The arrays initializeModels may have drawn.
InitialWeights == [seed \in {1, 2} |-> ModelWeights(seed)]

(***************************************************************************)
(* State.                                                                  *)
(*                                                                         *)
(* The specifications share the variables; each leaves the variables of    *)
(* the others at rest.                                                     *)
(*   SpecSignal  the arithmetic of generateTradingSignal on one set of     *)
(*               inputs (sigPc, sigIn, sigOut);                            *)
(*   SpecModel   one MLModelTraining instance and the item of its key in   *)
(*               AsyncStorage (the mdl variables);                         *)
(*   Spec        one engine instance, its callers and AsyncStorage;        *)
(*   SpecIndicators, SpecEvaluate                                          *)
(*               the indicator functions on one window of bars, and        *)
(*               evaluateModel on one prediction log (fnPc, fnIn, fnOut).  *)
(***************************************************************************)
VARIABLES
    sigPc,          \* "off", "idle", "called", "returned"
    sigIn,          \* the inputs of the call
    sigOut,         \* combinedConfidence and the value returned
    mdlPc,          \* "off", "ready", "saved", "loaded"
    mdl,            \* the instance
    mdlItem,        \* AsyncStorage under ml_model_<symbol>
    mdlSaved,       \* the instance as it was when saveModel last wrote it
    mdlThrew,       \* the last trainModel threw
    mdlLoad,        \* history: what the last call did, if it was a loadModel
    engine,         \* which class was constructed: "enhanced" or "basic"
    symbols,        \* this.symbols: the tickers of the engine
    lastTraining,   \* AsyncStorage under last_training_<symbol>
    retrainTask,    \* the autoRetrainModels call: where it is
    mlModels,       \* this.mlModels: symbol -> model
    modelWeights,   \* this.modelWeights: the seed of the arrays drawn
    initNext,       \* initializeMLModels: index of the next symbol
    isTraining,     \* this.isTraining
    predictionLog,  \* AsyncStorage under predictions_<symbol>
    modelItems,     \* AsyncStorage under ml_model_<symbol>
    calls,          \* the generateTradingSignal calls
    storeTasks,     \* the storePrediction call each of them started
    cleanTask,      \* the cleanOldData call
    trainCalls,     \* the trainModels calls
    fnPc,           \* "off", "idle", "called", "returned"
    fnIn,           \* the arguments of the function applied
    fnOut           \* what it returned

sigVars == <<sigPc, sigIn, sigOut>>
mdlVars == <<mdlPc, mdl, mdlItem, mdlSaved, mdlThrew, mdlLoad>>
engVars == <<engine, symbols, lastTraining, retrainTask, mlModels, modelWeights, initNext, isTraining, predictionLog,
             modelItems, calls, storeTasks, cleanTask, trainCalls>>
fnVars == <<fnPc, fnIn, fnOut>>
vars == <<sigVars, mdlVars, engVars, fnVars>>

NoInput == [kind |-> "none"]
\* History kept in the record of a call: the vector the call handed to a
\* model, by its length, and the inputSize of that model.
NotHanded == [op |-> "none", defined |-> FALSE, length |-> 0, inputSize |-> 0]
NoOutput == [kind |-> "none"]
NoModel == [defined |-> FALSE, architecture |-> EmptyArchitecture,
            weights |-> <<>>, biases |-> <<>>, trainingHistory |-> <<>>]

NoLoad == [called |-> FALSE, returned |-> FALSE, unchanged |-> TRUE]

FunctionsAtRest == fnPc = "off" /\ fnIn = NoInput /\ fnOut = NoOutput
SignalAtRest == sigPc = "off" /\ sigIn = NoInput /\ sigOut = NoOutput
ModelAtRest ==
    /\ mdlPc = "off" /\ mdl = NoModel /\ mdlItem = AbsentItem
    /\ mdlSaved = NoModel /\ mdlThrew = FALSE /\ mdlLoad = NoLoad
EngineAtRest ==
    /\ engine = "none" /\ symbols = <<>> /\ mlModels = <<>> /\ modelWeights = 0
    /\ lastTraining = <<>> /\ retrainTask = [pc |-> "off"]
    /\ initNext = 0
    /\ isTraining = FALSE /\ predictionLog = <<>> /\ modelItems = <<>>
    /\ calls = <<>> /\ storeTasks = <<>> /\ cleanTask = [pc |-> "off"]
    /\ trainCalls = <<>>

(***************************************************************************)
(* SpecSignal: one call of the signal arithmetic on every combination of   *)
(* engine, model prediction, indicator snapshot and sentiment.             *)
(***************************************************************************)
InitSignal ==
    /\ sigPc = "idle" /\ sigIn = NoInput /\ sigOut = NoOutput
    /\ ModelAtRest /\ EngineAtRest /\ FunctionsAtRest

SignalCall ==
    /\ sigPc = "idle"
    /\ \E e \in Engines, ml \in Predictions, ind \in IndicatorSnapshots,
          sent \in SentimentScores :
          /\ e = "basic" => sent = 0
          /\ sigIn' = [kind |-> "inputs", engine |-> e, ml |-> ml,
                       indicators |-> ind, price |-> Price, sentiment |-> sent]
    /\ sigPc' = "called"
    /\ UNCHANGED <<sigOut, mdlVars, engVars, fnVars>>

SignalReturn ==
    /\ sigPc = "called"
    /\ sigOut' = BuildSignal(sigIn.engine, sigIn.ml, sigIn.indicators,
                             sigIn.price, sigIn.sentiment)
    /\ sigPc' = "returned"
    /\ UNCHANGED <<sigIn, mdlVars, engVars, fnVars>>

NextSignal == SignalCall \/ SignalReturn

SpecSignal == InitSignal /\ [][NextSignal]_vars

(***************************************************************************)
(* Properties of the signal arithmetic (SpecSignal).                       *)
(***************************************************************************)
SignalReturned == sigPc = "returned"
IsCall(r) == r.kind = "signal" /\ r.direction = "CALL"
IsPut(r) == r.kind = "signal" /\ r.direction = "PUT"

\* C3 as the specification states it: CALL for every combined confidence above
\* 0.6, PUT for every one below 0.4, and null only inside [0.4, 0.6].
C3_AsStated ==
    SignalReturned =>
      LET c == sigOut.combinedConfidence
          r == sigOut.result
      IN  /\ (c # NaN /\ c * 10 > 6 * ConfUnit2) => IsCall(r)
          /\ (c # NaN /\ c * 10 < 4 * ConfUnit2) => IsPut(r)
          /\ r.kind = "null" =>
               (c # NaN /\ 4 * ConfUnit2 <= c * 10 /\ c * 10 <= 6 * ConfUnit2)

\* C3, amended: the basic engine returns CALL exactly for a combined confidence
\* above 0.6 and PUT exactly for one below 0.4; the enhanced engine returns CALL
\* exactly above 0.65 and PUT exactly below 0.35; every other combined
\* confidence, NaN included, yields null.
C3_Thresholds ==
    SignalReturned =>
      LET c == sigOut.combinedConfidence
          r == sigOut.result
          hi == IF sigIn.engine = "enhanced" THEN 65 ELSE 60
          lo == IF sigIn.engine = "enhanced" THEN 35 ELSE 40
      IN  /\ IsCall(r) <=> (c # NaN /\ c * 100 > hi * ConfUnit2)
          /\ IsPut(r) <=> (c # NaN /\ c * 100 < lo * ConfUnit2)
          /\ r.kind = "null" <=>
               (c = NaN \/ (lo * ConfUnit2 <= c * 100 /\ c * 100 <= hi * ConfUnit2))

\* The enhanced engine returned null for a combined confidence strictly between
\* 0.6 and 0.65.
C3_Witness ==
    /\ SignalReturned
    /\ sigIn.engine = "enhanced"
    /\ sigOut.combinedConfidence # NaN
    /\ sigOut.combinedConfidence * 100 > 60 * ConfUnit2
    /\ sigOut.combinedConfidence * 100 < 65 * ConfUnit2
    /\ sigOut.result.kind = "null"

\* C4: a combined confidence strictly between 0.4 and 0.6 yields null, in both
\* engines, whatever the prediction, the rule confidence and the sentiment.
C4_DeadZone ==
    (/\ SignalReturned
     /\ sigOut.combinedConfidence # NaN
     /\ sigOut.combinedConfidence * 10 > 4 * ConfUnit2
     /\ sigOut.combinedConfidence * 10 < 6 * ConfUnit2)
    => sigOut.result.kind = "null"

\* A call with a sentiment other than 0 whose combined confidence lies strictly
\* between 0.4 and 0.6, off the middle, has returned null.
C4_Witness ==
    /\ SignalReturned
    /\ sigIn.sentiment # 0
    /\ sigOut.combinedConfidence # NaN
    /\ sigOut.combinedConfidence * 10 > 4 * ConfUnit2
    /\ sigOut.combinedConfidence * 10 < 5 * ConfUnit2
    /\ sigOut.result.kind = "null"

\* C5 as stated: for a prediction in (0, 1) every returned signal has
\* confidence = |combined - 0.5| * 2, and that value lies in [0, 1].
C5_AsStated ==
    (/\ SignalReturned
     /\ sigOut.result.kind = "signal"
     /\ sigIn.ml # NaN /\ sigIn.ml > 0 /\ sigIn.ml < ConfUnit)
    => /\ sigOut.result.confidence
            = 2 * Abs(sigOut.combinedConfidence - ConfUnit2 \div 2)
       /\ sigOut.result.confidence >= 0
       /\ sigOut.result.confidence <= ConfUnit2

\* C6 as stated: the stop loss against the direction, the take profit with it,
\* and the take-profit distance exactly twice the stop-loss distance.
RiskOrdered(r) ==
    /\ IsCall(r) => (r.stopLoss <= r.entryPrice /\ r.entryPrice <= r.takeProfit)
    /\ IsPut(r) => (r.takeProfit <= r.entryPrice /\ r.entryPrice <= r.stopLoss)

ModelEpochs == 2
Seeds == 0..2

ModelArchitecture ==
    [ inputSize |-> 2, hiddenLayers |-> <<2>>, outputSize |-> 1,
      activationFunction |-> "relu", epochs |-> ModelEpochs ]

\* Training sets of five samples: four are trained on, one validates.  A
\* feature is NaN where an indicator was (stochastic %K over a window whose
\* highs and lows are all equal is 0/0).
RisingSample == [features |-> <<50, 20>>, label |-> 1]
FallingSample == [features |-> <<10, 90>>, label |-> 0]
NaNSample == [features |-> <<NaN, 30>>, label |-> 0]
TrainingSets ==
    { <<RisingSample, FallingSample, RisingSample, FallingSample, RisingSample>>,
      <<NaNSample, FallingSample, RisingSample, FallingSample, RisingSample>>,
      <<RisingSample, FallingSample, RisingSample, FallingSample, NaNSample>> }

\* The orders the shuffle may leave n samples in: as they came, or reversed.
Shuffles(n) == { [i \in 1..n |-> i], [i \in 1..n |-> n + 1 - i] }

\* Validation losses per epoch (1/FeatUnit), falling or rising.
\* A curve may also fall until the epoch `turn` (1-based) and rise after it.
TurnEpochs == {18, 21}
LossCurves(epochs) ==
    { [e \in 1..epochs |-> 70 - e], [e \in 1..epochs |-> 40 + e] }
      \cup { [e \in 1..epochs |-> IF e <= turn THEN 70 - e ELSE 70 + 3 * e - 4 * turn]
              : turn \in TurnEpochs \cap 1..(epochs - 1) }

Rands(n, epochs) ==
    { [seed |-> s, shuffled |-> sh, validationLoss |-> v] :
        s \in Seeds, sh \in Shuffles(n), v \in LossCurves(epochs) }

ProbeVectors == { <<50, 20>>, <<10, 90>>, <<0, 0>> }

\* What the store may hold under the key before the program has written it:
\* nothing, or a record no saveModel wrote.
ForeignItems == {AbsentItem, UnparsableItem, EmptyObjectItem}

InitModel ==
    /\ mdlPc = "ready"
    /\ \E seed \in Seeds : mdl = NewModel(ModelArchitecture, seed)
    /\ mdlItem \in ForeignItems
    /\ mdlSaved = NoModel
    /\ mdlThrew = FALSE
    /\ mdlLoad = NoLoad
    /\ SignalAtRest /\ EngineAtRest /\ FunctionsAtRest

\* trainModel(data); its last statement is `await this.saveModel()`.  setItem
\* may reject (ok = FALSE): saveModel logs and returns.
ModelTrain ==
    /\ mdlPc \in {"ready", "saved", "loaded"}
    /\ \E data \in TrainingSets, ok \in BOOLEAN :
         \E rand \in Rands(Len(data), mdl.architecture.epochs) :
           \E r \in {trainModel(mdl, data, rand)} :
               /\ mdl' = r.model
               /\ mdlThrew' = r.threw
               /\ IF ~r.threw /\ ok
                  THEN /\ mdlItem' = StringifyModel(r.model)
                       /\ mdlSaved' = r.model
                       /\ mdlPc' = "saved"
                  ELSE /\ UNCHANGED <<mdlItem, mdlSaved>>
                       /\ mdlPc' = "ready"
    /\ mdlLoad' = NoLoad
    /\ UNCHANGED <<sigVars, engVars, fnVars>>

\* saveModel()
ModelSave ==
    /\ mdlPc \in {"ready", "saved", "loaded"}
    /\ \E ok \in BOOLEAN :
         IF ok
         THEN /\ mdlItem' = StringifyModel(mdl)
              /\ mdlSaved' = mdl
              /\ mdlPc' = "saved"
         ELSE /\ UNCHANGED <<mdlItem, mdlSaved>>
              /\ mdlPc' = "ready"
    /\ mdlLoad' = NoLoad
    /\ UNCHANGED <<mdl, mdlThrew, sigVars, engVars, fnVars>>

\* loadModel() on this instance or on a fresh one for the same symbol.  getItem
\* may reject (ok = FALSE): loadModel logs and returns false.
ModelLoad ==
    /\ mdlPc \in {"ready", "saved", "loaded"}
    /\ \E fresh \in BOOLEAN, seed \in Seeds, ok \in BOOLEAN :
         \E target \in {IF fresh THEN NewModel(ModelArchitecture, seed) ELSE mdl} :
         \E r \in {IF ok THEN loadModel(target, mdlItem)
                   ELSE [model |-> target, returned |-> FALSE]} :
             /\ mdl' = r.model
             /\ mdlPc' = IF mdlPc = "saved" /\ r.returned THEN "loaded" ELSE "ready"
             /\ mdlLoad' = [ called |-> TRUE, returned |-> r.returned,
                             unchanged |-> r.model = target ]
    /\ UNCHANGED <<mdlItem, mdlSaved, mdlThrew, sigVars, engVars, fnVars>>

NextModel == ModelTrain \/ ModelSave \/ ModelLoad

SpecModel == InitModel /\ [][NextModel]_vars

(***************************************************************************)
(* Properties of the instance (SpecModel).                                 *)
(***************************************************************************)
SamePredictions(a, b) ==
    /\ a.defined = b.defined
    /\ a.defined => \A x \in ProbeVectors : predict(a, x) = predict(b, x)

\* C10 as stated: after saveModel and then loadModel the instance has the
\* architecture, weights, biases and training history it had at the save, and
\* predict returns what it returned then.
C10_AsStated ==
    mdlPc = "loaded" => (mdl = mdlSaved /\ SamePredictions(mdl, mdlSaved))

(***************************************************************************)
(* Spec: one engine instance.                                              *)
(*                                                                         *)
(* Bounds: the number of supported symbols taken from the list, the number *)
(* of generateTradingSignal and of trainModels calls, the widths of the    *)
(* hidden layers (4, 2 and 1 times HiddenScale for 64, 32 and 16) and the  *)
(* number of epochs (for 150).                                             *)
(***************************************************************************)
NumSymbols == 1
MaxCalls == 2
MaxTrainCalls == 2
HiddenScale == 1
EngineEpochs == 2

EngineInputSize == 18
MaxPredictions == 1000
MinTrainingBars == 100
MinTrainingSamples == 50

\* The initial value of this.symbols: the tickers of the market-data service.
\* An engine of the model has the first NumSymbols of them.
SupportedSymbols == <<"EURUSD=X", "EURJPY=X", "USDCHF=X">>
\* symbol.replace('=X', '') on the tickers.
WithoutSuffix ==
    ("EURUSD=X" :> "EURUSD") @@ ("EURJPY=X" :> "EURJPY") @@ ("USDCHF=X" :> "USDCHF")

\* getSupportedSymbols(): the names the app selects from and passes back, the
\* keys of mlModels; modelWeights is keyed by the tickers.
getSupportedSymbols == [i \in 1..Len(symbols) |-> WithoutSuffix[symbols[i]]]
RegistrySymbols == {getSupportedSymbols[i] : i \in 1..Len(symbols)}
WeightSymbols == {symbols[i] : i \in 1..Len(symbols)}
\* What a caller may pass: a name, or a ticker.
CallerSymbols == RegistrySymbols \cup WeightSymbols

EngineArchitecture ==
    [ inputSize |-> EngineInputSize,
      hiddenLayers |-> <<4 * HiddenScale, 2 * HiddenScale, HiddenScale>>,
      outputSize |-> 1,
      activationFunction |-> "relu",
      epochs |-> EngineEpochs ]

\* What the market-data service answers.  The engine asks for symbol + '=X'
\* (the enhanced class) or for symbol (the basic one); whether the service knows
\* that ticker is the service's affair: every answer is possible for every
\* symbol.
Bar(price, changePercent) == [price |-> price, changePercent |-> changePercent]

BullishIndicators ==
    Snapshot(25, [upper |-> Price + 60, middle |-> Price + 30, lower |-> Price],
             [ema12 |-> Price + 2, ema26 |-> Price + 1, sma20 |-> Price - 5],
             10, [support |-> Price - 5, resistance |-> Price + 50], ConfUnit \div 10)
NeutralIndicators ==
    Snapshot(50, [upper |-> Price + 30, middle |-> Price, lower |-> Price - 30],
             [ema12 |-> Price, ema26 |-> Price, sma20 |-> Price],
             50, [support |-> Price - 50, resistance |-> Price + 50], ConfUnit \div 10)
FlatWindowIndicators ==
    Snapshot(50, [upper |-> Price + 30, middle |-> Price, lower |-> Price - 30],
             [ema12 |-> Price, ema26 |-> Price, sma20 |-> Price],
             NaN, [support |-> Price - 50, resistance |-> Price + 50], ConfUnit \div 10)

Markets ==
    { [kind |-> "market", indicators |-> ind, latest |-> Bar(Price, 0)] :
        ind \in {BullishIndicators, NeutralIndicators, FlatWindowIndicators} }

FetchOutcomes == {[kind |-> "empty"], [kind |-> "no bar"]} \cup Markets

Sentiments ==
    { [overallSentiment |-> 0, fearGreedIndex |-> 50],
      [overallSentiment |-> 180, fearGreedIndex |-> 20] }

\* A year of daily bars as fetchHistoricalData returns it for trainModels, by
\* its number of bars; `flat` says that the highs and lows of the bars are all
\* equal, so that %K is NaN.  trainModels computes one indicator snapshot for
\* each bar from the 21st on.
HistoricalData(bars) == [i \in 1..bars |-> Bar(Price + (i % 2), 0)]
IndicatorsHistory(bars, flat) ==
    [ i \in 1..(bars - 20) |->
        IF flat THEN FlatWindowIndicators ELSE NeutralIndicators ]

\* A history with what trainModels derives from it: prepareTrainingData of the
\* bars from the 21st on and of the indicator snapshots.
TrainingHistory(bars, flat) ==
    [ bars |-> bars,
      trainingData |->
        IF bars <= 20 THEN <<>>
        ELSE prepareTrainingData(SubSeq(HistoricalData(bars), 21, bars),
                                 IndicatorsHistory(bars, flat)) ]

TrainingHistories ==
    { TrainingHistory(30, FALSE), TrainingHistory(102, FALSE),
      TrainingHistory(102, TRUE) }

\* The draws of one trainModel call of the engine.
EngineRand(n, epochs) ==
    [ seed |-> 1,
      shuffled |-> [i \in 1..n |-> i],
      validationLoss |-> [e \in 1..epochs |-> 70 - e] ]

\* AsyncStorage under predictions_<symbol>: no item, or the JSON text of an
\* array of records.  A record carries the number of the call that made it in
\* place of its timestamp; `old` says the timestamp is before the cutoff of
\* cleanOldData.
ArrayItem(items) == [kind |-> "array", items |-> items]
ItemsOf(item) == IF item.kind = "array" THEN item.items ELSE <<>>
OldRecord ==
    [ id |-> 0, old |-> TRUE, prediction |-> "CALL", confidence |-> ConfUnit2 \div 2,
      features |-> <<>>, actualOutcome |-> JsonNull ]
NewerThanCutoff(p) == ~p.old

\* What the store may hold under ml_model_<symbol> when the engine starts.
InitialModelItems == {AbsentItem, EmptyObjectItem}

IdleCall ==
    [ pc |-> "idle", symbol |-> "", market |-> [kind |-> "none"],
      cause |-> "", result |-> [kind |-> "none"], handed |-> NotHanded ]
NoStoreTask ==
    [ pc |-> "none", symbol |-> "", record |-> [id |-> 0], predictions |-> <<>> ]
IdleClean == [pc |-> "idle", index |-> 0, filtered |-> <<>>]
\* What the store holds under last_training_<symbol>: no item, a time more
\* than 7 days ago, a time within the last 7 days, or "now", the time of a
\* write of this run.
NoStamp == "absent"
Stamps == {NoStamp, "old", "recent"}
IdleRetrain == [pc |-> "idle", index |-> 0, call |-> 0]
IdleTrainCall ==
    [ pc |-> "idle", symbolsToTrain |-> <<>>, index |-> 0, results |-> {},
      handed |-> NotHanded ]

Init ==
    /\ engine \in Engines
    /\ symbols = SubSeq(SupportedSymbols, 1, NumSymbols)
    /\ mlModels = [s \in {} |-> NoModel]
    /\ modelWeights \in DOMAIN InitialWeights
    /\ engine = "enhanced" => modelWeights = 1
    /\ initNext = IF engine = "enhanced" THEN 1 ELSE Len(symbols) + 1
    /\ lastTraining = [s \in RegistrySymbols |-> NoStamp]
    /\ retrainTask = IdleRetrain
    /\ isTraining = FALSE
    /\ predictionLog =
         [ s \in CallerSymbols |->
             IF s \in RegistrySymbols THEN ArrayItem(<<OldRecord>>)
             ELSE AbsentItem ]
    /\ modelItems \in [RegistrySymbols -> InitialModelItems]
    /\ engine = "basic" => \A s \in RegistrySymbols : modelItems[s] = AbsentItem
    /\ calls = [c \in 1..MaxCalls |-> IdleCall]
    /\ storeTasks = [c \in 1..MaxCalls |-> NoStoreTask]
    /\ cleanTask = IdleClean
    /\ trainCalls = [t \in 1..MaxTrainCalls |-> IdleTrainCall]
    /\ SignalAtRest /\ ModelAtRest /\ FunctionsAtRest

(***************************************************************************)
(* The actions of the engine.  An await that lets other calls run ends a   *)
(* step; what runs between two awaits is one step.                         *)
(***************************************************************************)
\* Variants to try the checks against: a trainModels without its guard, and a
\* generateTradingSignal whose catch lets the error through.
GuardVariant(flag) == FALSE
RethrowVariant(error) == error

\* initializeMLModels, one symbol of its loop: construct, await loadModel, set.
InitializeMLModel ==
    /\ engine = "enhanced"
    /\ initNext <= Len(symbols)
    /\ LET symbol == getSupportedSymbols[initNext]
       IN  \E loaded \in {loadModel(NewModel(EngineArchitecture, 0),
                                    modelItems[symbol]).model} :
             mlModels' = (symbol :> loaded) @@ mlModels
    /\ initNext' = initNext + 1
    /\ UNCHANGED <<modelWeights, isTraining, predictionLog, modelItems, calls,
                   storeTasks, cleanTask, trainCalls, engine, symbols,
                   lastTraining, retrainTask,
                   sigVars, mdlVars, fnVars>>

\* A caller calls generateTradingSignal(symbol, duration); the call awaits
\* fetchHistoricalData.
CallGenerate(c, symbol) ==
    /\ calls[c].pc = "idle"
    /\ c > 1 => calls[c - 1].pc # "idle"
    /\ calls' = [calls EXCEPT ![c] = [IdleCall EXCEPT !.pc = "fetching",
                                                      !.symbol = symbol]]
    /\ UNCHANGED <<lastTraining, retrainTask, symbols, engine, mlModels, modelWeights, initNext, isTraining,
                   predictionLog, modelItems, storeTasks, cleanTask, trainCalls, sigVars, mdlVars, fnVars>>

\* The catch of generateTradingSignal: log the error, return null.
GenerateCatch(error) == NullResult

Returned(call, result, cause) ==
    [call EXCEPT !.pc = "done", !.result = result, !.cause = cause,
                 !.market = [kind |-> "none"]]

\* Why a frame of BuildSignal returns what it returns.
FrameCause(frame) ==
    IF frame.result.kind = "signal" THEN "signal"
    ELSE IF frame.combinedConfidence = NaN THEN "not a number"
    ELSE "dead zone"

\* The record storePrediction pushes, and the task the un-awaited call starts
\* (it is at its `await AsyncStorage.getItem`).
\* A variant to try the checks against: a record written with its outcome.
ResolvedRecordVariant(c, signal, features) ==
    [ id |-> c, old |-> FALSE, prediction |-> signal.direction,
      confidence |-> signal.confidence, features |-> features,
      actualOutcome |-> signal.direction ]

PredictionRecord(c, signal, features) ==
    [ id |-> c, old |-> FALSE, prediction |-> signal.direction,
      confidence |-> signal.confidence, features |-> features,
      actualOutcome |-> JsonNull ]

\* A variant to try the checks against: a storePrediction started whatever
\* the call returns.
StoreTaskVariant(c, symbol, frame, features) ==
    [ pc |-> "read", symbol |-> symbol,
      record |-> [ id |-> c, old |-> FALSE, prediction |-> "CALL",
                   confidence |-> 0, features |-> features,
                   actualOutcome |-> JsonNull ],
      predictions |-> <<>> ]

StartedStoreTask(c, symbol, frame, features) ==
    IF frame.result.kind = "signal"
    THEN [ pc |-> "read", symbol |-> symbol,
           record |-> PredictionRecord(c, frame.result, features),
           predictions |-> <<>> ]
    ELSE NoStoreTask

\* The rest of a call of the basic engine once the data is there: no await.
BasicFrame(symbol, market, features) ==
    Only({ BuildSignal("basic", mlPrediction, market.indicators,
                       market.latest.price, 0)
           : mlPrediction \in
               { Only({ neuralNetworkPredict(features, symbol \in WeightSymbols,
                                             weights)
                        : weights \in {InitialWeights[modelWeights]} }) } })

\* The fetches answer.  Empty history and missing bar return null; then the
\* enhanced engine looks the model up and awaits the features, the basic one
\* runs to its return.
GenFetch(c) ==
    /\ calls[c].pc = "fetching"
    /\ \E outcome \in FetchOutcomes :
         IF outcome.kind = "empty"
         THEN /\ calls' = [calls EXCEPT ![c] = Returned(@, NullResult, "empty history")]
              /\ UNCHANGED storeTasks
         ELSE IF outcome.kind = "no bar"
         THEN /\ calls' = [calls EXCEPT ![c] = Returned(@, NullResult, "no current bar")]
              /\ UNCHANGED storeTasks
         ELSE IF engine = "enhanced"
         THEN /\ calls' = [calls EXCEPT ![c] =
                   IF calls[c].symbol \in DOMAIN mlModels
                   THEN [@ EXCEPT !.pc = "extracting", !.market = outcome]
                   ELSE Returned(@, NullResult, "no model")]
              /\ UNCHANGED storeTasks
         ELSE \E features \in {extractFeatures(outcome.indicators, outcome.latest)} :
              \E frame \in {BasicFrame(calls[c].symbol, outcome, features)} :
              /\ calls' = [calls EXCEPT ![c] =
                   Returned([@ EXCEPT !.handed =
                               [ op |-> "neuralNetworkPredict", defined |-> TRUE,
                                 length |-> Len(features),
                                 inputSize |-> BasicInputSize ]],
                            frame.result, FrameCause(frame))]
              /\ storeTasks' = [storeTasks EXCEPT ![c] =
                   StartedStoreTask(c, calls[c].symbol, frame, features)]
    /\ UNCHANGED <<lastTraining, retrainTask, symbols, engine, mlModels, modelWeights, initNext, isTraining,
                   predictionLog, modelItems, cleanTask, trainCalls,
                   sigVars, mdlVars, fnVars>>

\* The enhanced engine after the features: predict, combine, return.  A predict
\* on an instance without weights throws; the catch returns null.
GenDecide(c) ==
    /\ calls[c].pc = "extracting"
    /\ \E sentiment \in Sentiments :
       \E model \in {mlModels[calls[c].symbol]} :
       \E features \in {extractEnhancedFeatures(calls[c].market.indicators,
                                                calls[c].market.latest, sentiment)} :
       \E call \in {[calls[c] EXCEPT !.handed =
                       [ op |-> "predict", defined |-> model.defined,
                         length |-> Len(features),
                         inputSize |-> model.architecture.inputSize ]]} :
            IF PredictThrows(model)
            THEN /\ calls' = [calls EXCEPT ![c] =
                      Returned(call, GenerateCatch([kind |-> "thrown"]), "error")]
                 /\ UNCHANGED storeTasks
            ELSE \E mlPrediction \in {predict(model, features)} :
                 \E frame \in {BuildSignal("enhanced", mlPrediction,
                                           calls[c].market.indicators,
                                           calls[c].market.latest.price,
                                           sentiment.overallSentiment)} :
                 /\ calls' = [calls EXCEPT ![c] =
                      Returned(call, frame.result, FrameCause(frame))]
                 /\ storeTasks' = [storeTasks EXCEPT ![c] =
                      StartedStoreTask(c, calls[c].symbol, frame, features)]
    /\ UNCHANGED <<lastTraining, retrainTask, symbols, engine, mlModels, modelWeights, initNext, isTraining,
                   predictionLog, modelItems, cleanTask, trainCalls,
                   sigVars, mdlVars, fnVars>>

\* Variants to try the checks against: a log that is never cut, and one
\* storage key for the logs of all symbols.
KeepVariant(predictions) == predictions
SharedKeyVariant(symbol) == "EURUSD=X"

\* const key = `predictions_${symbol}`: the logs are kept by symbol.
PredictionsKey(symbol) == symbol

\* if (predictions.length > 1000) predictions = predictions.slice(-1000)
KeepLast(predictions) ==
    IF Len(predictions) > MaxPredictions
    THEN SubSeq(predictions, Len(predictions) - MaxPredictions + 1, Len(predictions))
    ELSE predictions

\* storePrediction, from getItem to setItem: parse what was read, push the
\* record, keep the last 1000.  getItem may reject: the catch logs.
StoreRead(c) ==
    /\ storeTasks[c].pc = "read"
    /\ \E ok \in BOOLEAN :
         storeTasks' = [storeTasks EXCEPT ![c] =
           IF ~ok THEN [@ EXCEPT !.pc = "failed"]
           ELSE [@ EXCEPT !.pc = "write",
                          !.predictions =
                             KeepLast(Append(ItemsOf(predictionLog[PredictionsKey(storeTasks[c].symbol)]),
                                             storeTasks[c].record))]]
    /\ UNCHANGED <<lastTraining, retrainTask, symbols, engine, mlModels, modelWeights, initNext, isTraining,
                   predictionLog, modelItems, calls, cleanTask, trainCalls, sigVars, mdlVars, fnVars>>

\* storePrediction, setItem: the array replaces the item.  setItem may reject.
StoreWrite(c) ==
    /\ storeTasks[c].pc = "write"
    /\ \E ok \in BOOLEAN :
         IF ok
         THEN /\ predictionLog' =
                   [predictionLog EXCEPT ![PredictionsKey(storeTasks[c].symbol)] =
                      ArrayItem(storeTasks[c].predictions)]
              /\ storeTasks' = [storeTasks EXCEPT ![c].pc = "done"]
         ELSE /\ storeTasks' = [storeTasks EXCEPT ![c].pc = "failed"]
              /\ UNCHANGED predictionLog
    /\ UNCHANGED <<lastTraining, retrainTask, symbols, engine, mlModels, modelWeights, initNext, isTraining,
                   modelItems, calls, cleanTask, trainCalls,
                   sigVars, mdlVars, fnVars>>

\* cleanOldData(days): after dataCollection.cleanOldData, the loop over the
\* supported symbols starts.
CleanCall ==
    /\ engine = "enhanced"
    /\ cleanTask.pc = "idle"
    /\ cleanTask' = [pc |-> "read", index |-> 1, filtered |-> <<>>]
    /\ UNCHANGED <<lastTraining, retrainTask, symbols, engine, mlModels, modelWeights, initNext, isTraining,
                   predictionLog, modelItems, calls, storeTasks, trainCalls, sigVars, mdlVars, fnVars>>

CleanAdvance(task) ==
    IF task.index < Len(symbols)
    THEN [pc |-> "read", index |-> task.index + 1, filtered |-> <<>>]
    ELSE IdleClean

\* cleanOldData, getItem of one symbol: no item, next symbol; else filter what
\* was read and await setItem.  A rejection ends the call in its catch.
CleanRead ==
    /\ cleanTask.pc = "read"
    /\ \E ok \in BOOLEAN :
         LET existing == predictionLog[getSupportedSymbols[cleanTask.index]]
         IN  cleanTask' =
               IF ~ok THEN IdleClean
               ELSE IF existing.kind = "absent" THEN CleanAdvance(cleanTask)
               ELSE [cleanTask EXCEPT !.pc = "write",
                                      !.filtered = SelectSeq(existing.items,
                                                             NewerThanCutoff)]
    /\ UNCHANGED <<lastTraining, retrainTask, symbols, engine, mlModels, modelWeights, initNext, isTraining,
                   predictionLog, modelItems, calls, storeTasks, trainCalls, sigVars, mdlVars, fnVars>>

\* cleanOldData, setItem of one symbol.
CleanWrite ==
    /\ cleanTask.pc = "write"
    /\ \E ok \in BOOLEAN :
         IF ok
         THEN /\ predictionLog' =
                   [predictionLog EXCEPT ![getSupportedSymbols[cleanTask.index]] =
                      ArrayItem(cleanTask.filtered)]
              /\ cleanTask' = CleanAdvance(cleanTask)
         ELSE /\ cleanTask' = IdleClean
              /\ UNCHANGED predictionLog
    /\ UNCHANGED <<lastTraining, retrainTask, symbols, engine, mlModels, modelWeights, initNext, isTraining,
                   modelItems, calls, storeTasks, trainCalls,
                   sigVars, mdlVars, fnVars>>

\* The guard of trainModels: throw 'Training already in progress'.
TrainingGuard(flag) == flag

TrainArguments == {"all"} \cup CallerSymbols

\* trainModels(symbol?) up to its first await.  Rejected, or isTraining is set
\* and the loop awaits the history of its first symbol.  TrainCall is the call
\* of a caller outside the engine.
TrainStart(t, argument) ==
    /\ engine = "enhanced"
    /\ trainCalls[t].pc = "idle"
    /\ t > 1 => trainCalls[t - 1].pc # "idle"
    /\ IF TrainingGuard(isTraining)
       THEN /\ trainCalls' = [trainCalls EXCEPT ![t].pc = "rejected"]
            /\ UNCHANGED isTraining
       ELSE /\ isTraining' = TRUE
            /\ trainCalls' = [trainCalls EXCEPT ![t] =
                 [ pc |-> "fetching",
                   symbolsToTrain |-> IF argument = "all" THEN getSupportedSymbols
                                      ELSE <<argument>>,
                   index |-> 1,
                   results |-> {},
                   handed |-> NotHanded ]]
    /\ UNCHANGED <<symbols, engine, mlModels, modelWeights, initNext, predictionLog,
                   modelItems, calls, storeTasks, cleanTask,
                   sigVars, mdlVars, fnVars>>

TrainCall(t, argument) ==
    /\ TrainStart(t, argument)
    /\ UNCHANGED <<lastTraining, retrainTask>>

\* The next symbol of the loop, or the end of the call (pc = "done": the finally
\* block resets isTraining).
TrainAdvance(call) ==
    IF call.index < Len(call.symbolsToTrain)
    THEN [call EXCEPT !.pc = "fetching", !.index = @ + 1]
    ELSE [call EXCEPT !.pc = "done"]

\* A variant to try the checks against: a catch that lets the error through.
TrainRethrowVariant(error) == error

\* The catch of trainModels: log the error; the call goes on to its finally
\* block and returns the results (pc = "done").
TrainCatch(error) == "done"

\* trainModels: the history of the symbol arrives.  Fewer than 100 bars, no
\* model under the symbol, or 50 samples or fewer: next symbol.  Else trainModel
\* runs up to its `await this.saveModel()`; if it throws, the catch logs and the
\* call ends.
TrainFetch(t) ==
    /\ trainCalls[t].pc = "fetching"
    /\ LET sym == trainCalls[t].symbolsToTrain[trainCalls[t].index]
       IN  \E h \in TrainingHistories :
             IF h.bars < MinTrainingBars \/ sym \notin DOMAIN mlModels
             THEN /\ trainCalls' = [trainCalls EXCEPT ![t] = TrainAdvance(@)]
                  /\ UNCHANGED mlModels
             ELSE \E trainingData \in {h.trainingData} :
                  IF Len(trainingData) > MinTrainingSamples
                  THEN \E model \in {mlModels[sym]} :
                       \E rand \in {EngineRand(Len(trainingData),
                                               model.architecture.epochs)} :
                       \E r \in {trainModel(model, trainingData, rand)} :
                       /\ mlModels' = [mlModels EXCEPT ![sym] = r.model]
                       /\ trainCalls' = [trainCalls EXCEPT ![t] =
                            [@ EXCEPT !.pc = IF r.threw THEN TrainCatch("thrown")
                                             ELSE "saving",
                                      !.handed =
                                        [ op |-> "trainModel",
                                          defined |-> model.defined,
                                          length |-> Len(trainingData[1].features),
                                          inputSize |-> model.architecture.inputSize ]]]
                  ELSE /\ trainCalls' = [trainCalls EXCEPT ![t] = TrainAdvance(@)]
                       /\ UNCHANGED mlModels
    /\ isTraining' = IF trainCalls'[t].pc = "done" THEN FALSE ELSE isTraining
    /\ UNCHANGED <<lastTraining, retrainTask, symbols, engine, modelWeights, initNext, predictionLog, modelItems,
                   calls, storeTasks, cleanTask, sigVars, mdlVars, fnVars>>

\* trainModel's saveModel (setItem may reject: saveModel logs), then
\* results[sym] = metrics and the next symbol.
TrainSave(t) ==
    /\ trainCalls[t].pc = "saving"
    /\ LET sym == trainCalls[t].symbolsToTrain[trainCalls[t].index]
       IN  /\ \E ok \in BOOLEAN :
                modelItems' = IF ok
                              THEN [modelItems EXCEPT ![sym] = StringifyModel(mlModels[sym])]
                              ELSE modelItems
           /\ trainCalls' = [trainCalls EXCEPT ![t] =
                               TrainAdvance([@ EXCEPT !.results = @ \cup {sym}])]
    /\ isTraining' = IF trainCalls'[t].pc = "done" THEN FALSE ELSE isTraining
    /\ UNCHANGED <<lastTraining, retrainTask, symbols, engine, mlModels, modelWeights, initNext, predictionLog,
                   calls, storeTasks, cleanTask, sigVars, mdlVars, fnVars>>

Next ==
    \/ InitializeMLModel
    \/ \E c \in 1..MaxCalls, symbol \in CallerSymbols : CallGenerate(c, symbol)
    \/ \E c \in 1..MaxCalls : GenFetch(c)
    \/ \E c \in 1..MaxCalls : GenDecide(c)
    \/ \E c \in 1..MaxCalls : StoreRead(c)
    \/ \E c \in 1..MaxCalls : StoreWrite(c)
    \/ CleanCall
    \/ CleanRead
    \/ CleanWrite
    \/ \E t \in 1..MaxTrainCalls, argument \in TrainArguments : TrainCall(t, argument)
    \/ \E t \in 1..MaxTrainCalls : TrainFetch(t)
    \/ \E t \in 1..MaxTrainCalls : TrainSave(t)

Spec == Init /\ [][Next]_vars

(***************************************************************************)
(* Properties of the engine.                                               *)
(***************************************************************************)
TrainingRuns == {t \in 1..MaxTrainCalls : trainCalls[t].pc \in {"fetching", "saving"}}

\* A trainModels call made in this step while isTraining was set.
CalledWhileTraining(t) ==
    /\ isTraining
    /\ trainCalls[t].pc = "idle"
    /\ trainCalls'[t].pc # "idle"

\* C1: at most one training run is in progress at any time, isTraining is set
\* exactly while one is, and a trainModels call made while isTraining is set is
\* rejected in the same step: it trains nothing, stores nothing, leaves
\* isTraining set and leaves the run in flight as it was.
C1_Exclusive ==
    /\ [](/\ Cardinality(TrainingRuns) <= 1
          /\ isTraining <=> TrainingRuns # {})
    /\ [][\A t \in 1..MaxTrainCalls :
            CalledWhileTraining(t) =>
              /\ trainCalls'[t] = [IdleTrainCall EXCEPT !.pc = "rejected"]
              /\ isTraining'
              /\ mlModels' = mlModels
              /\ modelItems' = modelItems
              /\ \A u \in 1..MaxTrainCalls : u # t => trainCalls'[u] = trainCalls[u]]_vars

\* A call is rejected while a run is in flight.
C1_Witness ==
    \E t, u \in 1..MaxTrainCalls :
        /\ trainCalls[t].pc = "rejected"
        /\ trainCalls[u].pc \in {"fetching", "saving"}
        /\ isTraining

StoresSettled ==
    /\ \A c \in 1..MaxCalls : storeTasks[c].pc \in {"none", "done"}
    /\ cleanTask.pc = "idle"

RecordsOf(c) ==
    LET items == ItemsOf(predictionLog[calls[c].symbol])
    IN  {i \in 1..Len(items) : items[i].id = c}

\* C2 as stated: once every pending storage write has finished (none of them
\* failed), the log of a symbol holds exactly one record for every signal that
\* generateTradingSignal returned for that symbol.
C2_AsStated ==
    StoresSettled =>
        \A c \in 1..MaxCalls :
            (calls[c].pc = "done" /\ calls[c].result.kind = "signal")
                => Cardinality(RecordsOf(c)) = 1

InfrastructureCauses ==
    {"empty history", "no current bar", "no model", "error", "not a number"}

\* C7: generateTradingSignal ends by returning null or a signal, never by
\* throwing; it returns null when the history is empty, the current bar is
\* missing or no model is registered under the symbol; and a call whose
\* prediction was handed to storePrediction has returned its signal whatever
\* becomes of the storage read and write.
C7_NeverThrows ==
    \A c \in 1..MaxCalls :
        /\ calls[c].pc = "done" =>
             /\ calls[c].result.kind \in {"null", "signal"}
             /\ calls[c].cause \in {"empty history", "no current bar", "no model", "error"}
                  => calls[c].result = NullResult
        /\ storeTasks[c].pc # "none" =>
             /\ calls[c].pc = "done"
             /\ calls[c].result.kind = "signal"

\* A call made before the asynchronous initialisation has registered the models
\* has returned null.
C7_Witness ==
    /\ initNext <= Len(symbols)
    /\ \E c \in 1..MaxCalls :
         /\ calls[c].pc = "done"
         /\ calls[c].cause = "no model"
         /\ calls[c].result = NullResult

\* C8 as stated: a call that ended in the dead zone and a call that ended on an
\* infrastructure failure never returned the same value.
C8_AsStated ==
    \A c, d \in 1..MaxCalls :
        ( /\ calls[c].pc = "done" /\ calls[c].cause = "dead zone"
          /\ calls[d].pc = "done" /\ calls[d].cause \in InfrastructureCauses )
            => calls[c].result # calls[d].result

FitsModel(h) == (h.op # "none" /\ h.defined) => h.length = h.inputSize

\* C9 as stated: every vector a call has handed to a model has as many entries
\* as the inputSize of that model, for the vector of generateTradingSignal and
\* for the samples of trainModels.
C9_AsStated ==
    /\ \A c \in 1..MaxCalls : FitsModel(calls[c].handed)
    /\ \A t \in 1..MaxTrainCalls : FitsModel(trainCalls[t].handed)

(***************************************************************************)
(* loadModel on records no saveModel wrote (SpecModel).                    *)
(***************************************************************************)
\* No record under the key, or a record that is unparsable or lacks
\* architecture, weights or biases.
NothingToRestore ==
    \/ mdlItem.kind \in {"absent", "unparsable"}
    \/ mdlItem.kind = "object" /\ ~mdlItem.defined

\* C11 as stated: a loadModel that finds no record or a malformed one returns
\* false and leaves the instance as it was; one that returns true has restored
\* architecture and parameters; and predict is usable after every loadModel.
C11_AsStated ==
    mdlLoad.called =>
        /\ NothingToRestore => (~mdlLoad.returned /\ mdlLoad.unchanged)
        /\ mdlLoad.returned => mdl.defined
        /\ ~PredictThrows(mdl)

(***************************************************************************)
(* The training history of an instance (SpecModel).                        *)
(***************************************************************************)
IsPrefix(s, t) == Len(s) <= Len(t) /\ SubSeq(t, 1, Len(s)) = s

\* C12 as stated: a trainModel call removes and alters none of the entries the
\* history held before it, it only appends.
C12_AsStated ==
    [][(~mdlLoad'.called) => IsPrefix(mdl.trainingHistory, mdl'.trainingHistory)]_vars

(***************************************************************************)
(* The indicator functions.  A bar is [price, high, low, changePercent],   *)
(* prices in thousandths.  `prices`, `highs`, `lows` are sequences from    *)
(* index 1 (the code's index 0).  An average of price changes is kept in   *)
(* units of 1/AvgUnit of a thousandth, a log return in units of 1/LnUnit;  *)
(* every division rounds down where the code rounds to the nearest double. *)
(* The inputs are finite numbers.                                          *)
(***************************************************************************)
AvgUnit == 10 * 100
LnUnit == 1000 * 100

RECURSIVE SumRange(_, _, _)
SumRange(s, from, to) ==
    IF from > to THEN 0
    ELSE IF from = to THEN s[from]
    ELSE LET mid == (from + to) \div 2
         IN  SumRange(s, from, mid) + SumRange(s, mid + 1, to)
SumSeq(s) == SumRange(s, 1, Len(s))

\* prices.slice(-period)
LastOf(s, period) ==
    IF Len(s) <= period THEN s ELSE SubSeq(s, Len(s) - period + 1, Len(s))

\* Math.sqrt on fixed-point integers, rounded down.
RECURSIVE SqrtBetween(_, _, _)
SqrtBetween(n, lo, hi) ==
    IF lo >= hi THEN lo
    ELSE LET mid == (lo + hi + 1) \div 2
         IN  IF mid * mid <= n THEN SqrtBetween(n, mid, hi)
             ELSE SqrtBetween(n, lo, mid - 1)
Sqrt(n) == SqrtBetween(n, 0, IF n < 40000 THEN 200 ELSE 40000)

\* A variant of calculateRSI to try the checks against: the neutral default
\* only below `period` prices.
RsiVariant(prices, period) ==
    IF Len(prices) < period THEN 50 ELSE 100

\* The smoothing loop of calculateRSI over the price indexes from..to: avg is
\* the average gain (gain = TRUE) or the average loss.  The range is walked in
\* order, by halves.
RECURSIVE Smoothed(_, _, _, _, _, _)
Smoothed(prices, period, gain, from, to, avg) ==
    IF from > to THEN avg
    ELSE IF from = to
    THEN LET change == prices[from] - prices[from - 1]
             amount == IF gain THEN (IF change > 0 THEN change ELSE 0)
                       ELSE (IF change < 0 THEN 0 - change ELSE 0)
         IN  (avg * (period - 1) + amount * AvgUnit) \div period
    ELSE Only({ Smoothed(prices, period, gain, ((from + to) \div 2) + 1, to, half)
                : half \in {Smoothed(prices, period, gain, from, (from + to) \div 2, avg)} })

\* calculateRSI(prices, period): a percentage.
calculateRSI(prices, period) ==
    IF Len(prices) < period + 1 THEN 50
    ELSE LET change(i) == prices[i + 1] - prices[i]
             gains == SumSeq([i \in 1..period |->
                                IF change(i) > 0 THEN change(i) ELSE 0])
             losses == SumSeq([i \in 1..period |->
                                 IF change(i) > 0 THEN 0 ELSE 0 - change(i)])
             avgGain == Smoothed(prices, period, TRUE, period + 2, Len(prices),
                                 (gains * AvgUnit) \div period)
             avgLoss == Smoothed(prices, period, FALSE, period + 2, Len(prices),
                                 (losses * AvgUnit) \div period)
         IN  IF avgLoss = 0 THEN 100
             ELSE (100 * avgGain) \div (avgGain + avgLoss)

\* calculateSMA(prices, period): `prices[prices.length - 1] || 0` on a short
\* array.
calculateSMA(prices, period) ==
    IF Len(prices) < period
    THEN (IF Len(prices) = 0 THEN 0 ELSE prices[Len(prices)])
    ELSE SumSeq(LastOf(prices, period)) \div period

\* The loop of calculateEMA over the price indexes from..to, walked in order,
\* by halves.
RECURSIVE EmaOver(_, _, _, _, _)
EmaOver(prices, period, from, to, ema) ==
    IF from > to THEN ema
    ELSE IF from = to
    THEN (2 * prices[from] * AvgUnit + (period - 1) * ema) \div (period + 1)
    ELSE Only({ EmaOver(prices, period, ((from + to) \div 2) + 1, to, half)
                : half \in {EmaOver(prices, period, from, (from + to) \div 2, ema)} })

calculateEMA(prices, period) ==
    IF Len(prices) = 0 THEN 0
    ELSE IF Len(prices) = 1 THEN prices[1]
    ELSE EmaOver(prices, period, 2, Len(prices), prices[1] * AvgUnit) \div AvgUnit

\* A variant of calculateMACD to try the checks against: a signal line that
\* lags the MACD line.
MacdVariant(prices) ==
    LET macd == calculateEMA(prices, 12) - calculateEMA(prices, 26)
    IN  [macd |-> macd, signal |-> macd \div 2, histogram |-> macd - macd \div 2]

\* calculateMACD: the signal line is the EMA of the one-element array [macd].
calculateMACD(prices) ==
    LET macd == calculateEMA(prices, 12) - calculateEMA(prices, 26)
        signal == calculateEMA(<<macd>>, 9)
    IN  [macd |-> macd, signal |-> signal, histogram |-> macd - signal]

\* calculateBollingerBands(prices, 20, 2).  On a short array the three bands
\* are prices[prices.length - 1]: undefined on an empty one.
calculateBollingerBands(prices, period) ==
    IF Len(prices) < period
    THEN LET lastPrice == IF Len(prices) = 0 THEN Undefined ELSE prices[Len(prices)]
         IN  [upper |-> lastPrice, middle |-> lastPrice, lower |-> lastPrice]
    ELSE LET recentPrices == LastOf(prices, period)
             sma == SumSeq(recentPrices) \div period
             variance == SumSeq([i \in 1..period |->
                                   (recentPrices[i] - sma) * (recentPrices[i] - sma)])
                           \div period
             standardDeviation == Sqrt(variance)
         IN  [ upper |-> sma + standardDeviation * 2,
               middle |-> sma,
               lower |-> sma - standardDeviation * 2 ]

\* calculateStochastic(highs, lows, closes, 14): %K is 0/0, NaN, when the
\* highs and lows of the last `period` bars are all equal; %D is %K.
calculateStochastic(highs, lows, closes, period) ==
    IF Len(closes) < period THEN [k |-> 50, d |-> 50]
    ELSE LET currentClose == closes[Len(closes)]
             highestHigh == JsMax(LastOf(highs, period))
             lowestLow == JsMin(LastOf(lows, period))
             k == JsDiv(currentClose - lowestLow, highestHigh - lowestLow, 100)
         IN  [k |-> k, d |-> k]

\* Math.log(a / b) in units of 1/LnUnit, by ln(a / b) ~ 2 (a - b) / (a + b):
\* exact at a = b, and within a thousandth of the value for the price steps
\* of the model.
LogReturn(a, b) == (2 * (a - b) * LnUnit) \div (a + b)

\* Math.sqrt(252) in thousandths.
SqrtOfYear == Sqrt(252 * 1000 * 1000)

\* calculateVolatility(prices, 20), in units of 1/ConfUnit: the returns are
\* those of the FIRST period + 1 prices.
calculateVolatility(prices, period) ==
    IF Len(prices) < period THEN 0
    ELSE LET count == (IF Len(prices) < period + 1 THEN Len(prices) ELSE period + 1) - 1
             returns == [i \in 1..count |-> LogReturn(prices[i + 1], prices[i])]
             mean == SumSeq(returns) \div count
             variance == SumSeq([i \in 1..count |->
                                   (returns[i] - mean) * (returns[i] - mean)])
                           \div count
         IN  (((Sqrt(variance) * SqrtOfYear) \div 1000) * ConfUnit) \div LnUnit

\* calculateSupportResistance(highs, lows, 20): `highs[highs.length - 1] || 0`
\* on short arrays.
calculateSupportResistance(highs, lows, period) ==
    IF Len(highs) < period \/ Len(lows) < period
    THEN [ support |-> IF Len(lows) = 0 THEN 0 ELSE lows[Len(lows)],
           resistance |-> IF Len(highs) = 0 THEN 0 ELSE highs[Len(highs)] ]
    ELSE [ support |-> JsMin(LastOf(lows, period)),
           resistance |-> JsMax(LastOf(highs, period)) ]

\* calculateTechnicalIndicators(marketData)
calculateTechnicalIndicators(marketData) ==
    IF Len(marketData) = 0
    THEN [ rsi |-> 50,
           macd |-> [macd |-> 0, signal |-> 0, histogram |-> 0],
           bollingerBands |-> [upper |-> 0, middle |-> 0, lower |-> 0],
           sma20 |-> 0, sma50 |-> 0, ema12 |-> 0, ema26 |-> 0,
           stochastic |-> [k |-> 50, d |-> 50],
           volatility |-> 0, support |-> 0, resistance |-> 0 ]
    ELSE LET prices == [i \in 1..Len(marketData) |-> marketData[i].price]
             highs == [i \in 1..Len(marketData) |-> marketData[i].high]
             lows == [i \in 1..Len(marketData) |-> marketData[i].low]
         IN  [ rsi |-> calculateRSI(prices, 14),
               macd |-> calculateMACD(prices),
               bollingerBands |-> calculateBollingerBands(prices, 20),
               sma20 |-> calculateSMA(prices, 20),
               sma50 |-> calculateSMA(prices, 50),
               ema12 |-> calculateEMA(prices, 12),
               ema26 |-> calculateEMA(prices, 26),
               stochastic |-> calculateStochastic(highs, lows, prices, 14),
               volatility |-> calculateVolatility(prices, 20),
               support |-> calculateSupportResistance(highs, lows, 20).support,
               resistance |-> calculateSupportResistance(highs, lows, 20).resistance ]

(***************************************************************************)
(* The indicator pipeline on its own: SpecIndicators.                      *)
(*                                                                         *)
(* A caller hands over either a window of bars whose last bar is the       *)
(* current one (generateTradingSignal passes [...historicalData,           *)
(* currentData]; the empty window reaches the functions only), or an       *)
(* indicator snapshot with the current bar (the rule scorer alone), or a   *)
(* year of bars (what trainModels does before it trains).                  *)
(***************************************************************************)
MaxBars == 31

Shapes == {"flat", "rising", "falling", "zigzag", "breakout"}

\* Bar i of a series of a given shape.  The flat series is the one of the
\* scenario: close, high and low all 1.10000; the breakout series does not
\* move for 22 bars and then climbs unevenly.
ShapeBar(shape, i) ==
    LET price == CASE shape = "flat" -> 1100
                   [] shape = "rising" -> Price + 2 * i
                   [] shape = "falling" -> Price + 400 - 2 * i
                   [] shape = "zigzag" -> Price + <<0, 3, 3, 1>>[(i % 4) + 1]
                   [] shape = "breakout" ->
                        IF i <= 22 THEN Price ELSE Price + 20 * (i % 2) + 10 * (i - 22)
        spread == IF shape = "flat" THEN 0 ELSE 2
    IN  [ price |-> price, high |-> price + spread, low |-> price - spread,
          changePercent |-> 0 ]

Series(shape, bars) == [i \in 1..bars |-> ShapeBar(shape, i)]

\* marketData[marketData.length - 1] of an empty window.
NoBar ==
    [ price |-> Undefined, high |-> Undefined, low |-> Undefined,
      changePercent |-> Undefined ]

WindowInputs ==
    { [ kind |-> "window", marketData |-> Series(shape, bars),
        currentData |-> IF bars = 0 THEN NoBar ELSE ShapeBar(shape, bars) ] :
        shape \in Shapes, bars \in 0..MaxBars }

\* The rule scorer takes any snapshot: also one whose MACD histogram is not 0.
MacdValues ==
    { [macd |-> 0, signal |-> 0, histogram |-> 0],
      [macd |-> 2, signal |-> 1, histogram |-> 1],
      [macd |-> -2, signal |-> -1, histogram |-> -1] }

SnapshotInputs ==
    { [ kind |-> "snapshot", indicators |-> [ind EXCEPT !.macd = macd],
        currentData |-> ShapeBar("rising", 0) ] :
        ind \in IndicatorSnapshots, macd \in MacdValues }

HistoryInputs ==
    { [kind |-> "history", historicalData |-> Series(shape, bars)] :
        shape \in Shapes, bars \in MinTrainingBars..(MinTrainingBars + 2) }

\* trainModels, lines 298-325: one snapshot for each bar from the 21st on,
\* computed from the bars up to it, then prepareTrainingData on the bars from
\* the 21st on.
trainModelsIndicators(historicalData) ==
    [ k \in 1..(Len(historicalData) - 20) |->
        calculateTechnicalIndicators(SubSeq(historicalData, 1, 20 + k)) ]

trainModelsData(historicalData) ==
    Only({ [ indicatorsHistory |-> indicatorsHistory,
             trainingData |->
               prepareTrainingData(SubSeq(historicalData, 21, Len(historicalData)),
                                   indicatorsHistory) ]
           : indicatorsHistory \in {trainModelsIndicators(historicalData)} })

\* What the functions return for a window and the current bar: each indicator
\* function, the snapshot, the rule scorer on it, and the technical values
\* before and after normalizeData (`new Array(15).fill(0)` on an empty window,
\* where no rule scorer is called).
WindowResults(marketData, currentData) ==
    LET prices == [i \in 1..Len(marketData) |-> marketData[i].price]
        highs == [i \in 1..Len(marketData) |-> marketData[i].high]
        lows == [i \in 1..Len(marketData) |-> marketData[i].low]
    IN  Only({ [ threw |-> FALSE,
                 calculateRSI |-> calculateRSI(prices, 14),
                 calculateStochastic |-> calculateStochastic(highs, lows, prices, 14),
                 calculateBollingerBands |-> calculateBollingerBands(prices, 20),
                 calculateSMA |-> calculateSMA(prices, 20),
                 calculateVolatility |-> calculateVolatility(prices, 20),
                 calculateSupportResistance |->
                     calculateSupportResistance(highs, lows, 20),
                 indicators |-> indicators,
                 ruleBasedSignals |->
                     IF Len(marketData) = 0 THEN NoOutput
                     ELSE analyzeRuleBasedSignals(indicators, currentData.price),
                 raw |->
                     IF Len(marketData) = 0 THEN <<>>
                     ELSE TechnicalVector(indicators, currentData),
                 features |->
                     IF Len(marketData) = 0 THEN [i \in 1..BasicInputSize |-> 0]
                     ELSE extractFeatures(indicators, currentData) ]
               : indicators \in {calculateTechnicalIndicators(marketData)} })

InitIndicators ==
    /\ fnPc = "idle"
    /\ fnIn = NoInput
    /\ fnOut = NoOutput
    /\ SignalAtRest
    /\ ModelAtRest
    /\ EngineAtRest

IndicatorsCall ==
    /\ fnPc = "idle"
    /\ \E input \in WindowInputs \cup SnapshotInputs \cup HistoryInputs :
         fnIn' = input
    /\ fnPc' = "called"
    /\ UNCHANGED <<fnOut, sigVars, mdlVars, engVars>>

IndicatorsReturn ==
    /\ fnPc = "called"
    /\ fnOut' = CASE fnIn.kind = "window" ->
                       WindowResults(fnIn.marketData, fnIn.currentData)
                  [] fnIn.kind = "snapshot" ->
                       [ ruleChecks |-> RuleChecks(fnIn.indicators, fnIn.currentData.price),
                         ruleBasedSignals |->
                           analyzeRuleBasedSignals(fnIn.indicators, fnIn.currentData.price) ]
                  [] fnIn.kind = "history" -> trainModelsData(fnIn.historicalData)
    /\ fnPc' = "returned"
    /\ UNCHANGED <<fnIn, sigVars, mdlVars, engVars>>

NextIndicators == IndicatorsCall \/ IndicatorsReturn

SpecIndicators == InitIndicators /\ [][NextIndicators]_vars

(***************************************************************************)
(* Properties of SpecIndicators.                                           *)
(***************************************************************************)
HistoryReturned == fnPc = "returned" /\ fnIn.kind = "history"
WindowReturned == fnPc = "returned" /\ fnIn.kind = "window"
SnapshotReturned == fnPc = "returned" /\ fnIn.kind = "snapshot"

\* C13: of a history of n bars trainModels makes exactly n - 21 samples, one
\* for each bar from the 21st to the last but one; the sample of a bar has the
\* features of that bar and of the indicators computed from the bars up to and
\* including it, and the label 1 if and only if the next bar's price is
\* strictly higher (0 otherwise, equal prices included).
C13_Labels ==
    HistoryReturned =>
        LET h == fnIn.historicalData
            samples == fnOut.trainingData
        IN  /\ Len(samples) = Len(h) - 21
            /\ \A i \in 1..Len(samples) :
                 /\ samples[i].label = 1 <=> h[20 + i + 1].price > h[20 + i].price
                 /\ samples[i].label \in {0, 1}
                 /\ fnOut.indicatorsHistory[i]
                      = calculateTechnicalIndicators(SubSeq(h, 1, 20 + i))
                 /\ samples[i].features
                      = SampleFeatures(fnOut.indicatorsHistory[i], h[20 + i])

\* A returned history with a rising step, a falling step and a step between
\* equal prices among its samples.
C13_Witness ==
    /\ HistoryReturned
    /\ \E i, j, k \in 1..Len(fnOut.trainingData) :
         LET h == fnIn.historicalData
         IN  /\ h[21 + i].price > h[20 + i].price /\ fnOut.trainingData[i].label = 1
             /\ h[21 + j].price < h[20 + j].price /\ fnOut.trainingData[j].label = 0
             /\ h[21 + k].price = h[20 + k].price /\ fnOut.trainingData[k].label = 0

\* The scenario's window: 30 bars, every close, high and low 1.10000, the
\* current bar among them.
FlatScenario == WindowReturned /\ fnIn.marketData = Series("flat", 30)

\* C16 as stated: on the flat 30-bar series the rule scorer reports confidence
\* exactly 0.5, no check fired and an empty reasoning list.
C16_AsStated ==
    FlatScenario =>
        /\ fnOut.ruleBasedSignals.confidence = ConfUnit \div 2
        /\ fnOut.ruleBasedSignals.bullishSignals = 0
        /\ fnOut.ruleBasedSignals.bearishSignals = 0
        /\ fnOut.ruleBasedSignals.reasoning = <<>>

\* C17 as stated: on the flat 30-bar series calculateTechnicalIndicators yields
\* RSI 50, volatility 0, the three Bollinger bands at 1.10000 and support and
\* resistance at 1.10000.
C17_AsStated ==
    FlatScenario =>
        /\ fnOut.indicators.rsi = 50
        /\ fnOut.indicators.volatility = 0
        /\ fnOut.indicators.bollingerBands = [upper |-> 1100, middle |-> 1100, lower |-> 1100]
        /\ fnOut.indicators.support = 1100
        /\ fnOut.indicators.resistance = 1100

\* The reasons of the six checks, in the order of the checks.
CheckReasons ==
    << {"RSI oversold", "RSI overbought"},
       {"MACD bullish crossover", "MACD bearish crossover"},
       {"Price at lower Bollinger Band", "Price at upper Bollinger Band"},
       {"Price above SMA20 with EMA12 > EMA26", "Price below SMA20 with EMA12 < EMA26"},
       {"Stochastic oversold", "Stochastic overbought"},
       {"Price near support level", "Price near resistance level"} >>
CheckOf(reason) == CHOOSE i \in 1..6 : reason \in CheckReasons[i]

\* C18: each of the six checks adds to at most one counter and appends exactly
\* one reason when it does; the reasoning list has bullish + bearish entries,
\* at most 6, in the order of the checks; the confidence is bullish / (bullish
\* + bearish), 0.5 with an empty list when no check fires, and 0.5 when the
\* counts are equal.
C18_CountBased ==
    SnapshotReturned =>
        LET r == fnOut.ruleBasedSignals
            cs == fnOut.ruleChecks
            total == r.bullishSignals + r.bearishSignals
        IN  /\ Len(cs) = 6
            /\ \A i \in 1..6 :
                 /\ cs[i].bull + cs[i].bear \in {0, 1}
                 /\ Len(cs[i].reasoning) = cs[i].bull + cs[i].bear
                 /\ \A j \in 1..Len(cs[i].reasoning) : cs[i].reasoning[j] \in CheckReasons[i]
            /\ r.bullishSignals = Cardinality({i \in 1..6 : cs[i].bull = 1})
            /\ r.bearishSignals = Cardinality({i \in 1..6 : cs[i].bear = 1})
            /\ Len(r.reasoning) = total
            /\ total <= 6
            /\ \A j \in 1..Len(r.reasoning) :
                 /\ \E i \in 1..6 : r.reasoning[j] \in CheckReasons[i]
                 /\ cs[CheckOf(r.reasoning[j])].reasoning = <<r.reasoning[j]>>
                 /\ \A k \in 1..(j - 1) : CheckOf(r.reasoning[k]) < CheckOf(r.reasoning[j])
            /\ total = 0 => (r.confidence = ConfUnit \div 2 /\ r.reasoning = <<>>)
            /\ total > 0 => r.confidence * total = r.bullishSignals * ConfUnit
            /\ r.bullishSignals = r.bearishSignals => r.confidence = ConfUnit \div 2

\* A snapshot on which all six checks fire, three each way.
C18_Witness ==
    /\ SnapshotReturned
    /\ fnOut.ruleBasedSignals.bullishSignals = 3
    /\ fnOut.ruleBasedSignals.bearishSignals = 3
    /\ Len(fnOut.ruleBasedSignals.reasoning) = 6

\* C19: on too few bars each indicator function returns its neutral default
\* and does not throw: RSI 50 below period + 1 = 15 prices, Stochastic
\* {k: 50, d: 50} below 14 closes, the three Bollinger bands the last price
\* below 20 prices, SMA the last price below its period (0 on no price); on
\* the empty window nothing throws and calculateTechnicalIndicators returns
\* its default snapshot.
C19_NeutralDefaults ==
    WindowReturned =>
        LET n == Len(fnIn.marketData)
            last == fnIn.currentData.price
        IN  /\ ~fnOut.threw
            /\ n < 15 => fnOut.calculateRSI = 50
            /\ n < 14 => fnOut.calculateStochastic = [k |-> 50, d |-> 50]
            /\ (0 < n /\ n < 20) =>
                 fnOut.calculateBollingerBands
                   = [upper |-> last, middle |-> last, lower |-> last]
            /\ n = 0 =>
                 /\ fnOut.calculateBollingerBands.upper = fnOut.calculateBollingerBands.middle
                 /\ fnOut.calculateBollingerBands.lower = fnOut.calculateBollingerBands.middle
            /\ n < 20 => fnOut.calculateSMA = (IF n = 0 THEN 0 ELSE last)
            /\ n = 0 =>
                 /\ fnOut.indicators.rsi = 50
                 /\ fnOut.indicators.stochastic = [k |-> 50, d |-> 50]
                 /\ fnOut.indicators.sma20 = 0
                 /\ fnOut.indicators.bollingerBands = [upper |-> 0, middle |-> 0, lower |-> 0]

\* A window of 14 moving bars: one price too few for RSI, enough for %K.
C19_Witness ==
    /\ WindowReturned
    /\ Len(fnIn.marketData) = 14
    /\ fnIn.marketData[1].price # fnIn.marketData[14].price
    /\ fnOut.calculateRSI = 50
    /\ fnOut.calculateStochastic.k # 50
    /\ fnOut.calculateSMA = fnIn.marketData[14].price

\* C20 as stated: for every window of at least one bar, each of the 15
\* normalised technical features lies in [0, 1]; when the raw values are not
\* all equal one feature is 1 and one is 0, and when they are all equal every
\* feature is 0.5.
C20_AsStated ==
    (WindowReturned /\ Len(fnIn.marketData) > 0) =>
        LET raw == fnOut.raw
            features == fnOut.features
            allEqual == \A i, j \in 1..Len(raw) : raw[i] = raw[j]
        IN  /\ Len(features) = 15
            /\ \A i \in 1..15 : features[i] \in 0..FeatUnit
            /\ ~allEqual => /\ \E i \in 1..15 : features[i] = FeatUnit
                            /\ \E i \in 1..15 : features[i] = 0
            /\ allEqual => \A i \in 1..15 : features[i] = FeatUnit \div 2

\* The reasons the MACD check can give.
MacdReasons == {"MACD bullish crossover", "MACD bearish crossover"}

\* C28: in every snapshot calculateTechnicalIndicators produces, macd.signal
\* equals macd.macd and macd.histogram is 0; the MACD check of the rule scorer
\* does not fire on it, so at most five reasons come out of the six checks.
C28_MacdNeverFires ==
    WindowReturned =>
        /\ fnOut.indicators.macd.signal = fnOut.indicators.macd.macd
        /\ fnOut.indicators.macd.histogram = 0
        /\ Len(fnIn.marketData) > 0 =>
             /\ \A j \in 1..Len(fnOut.ruleBasedSignals.reasoning) :
                  fnOut.ruleBasedSignals.reasoning[j] \notin MacdReasons
             /\ fnOut.ruleBasedSignals.bullishSignals
                  + fnOut.ruleBasedSignals.bearishSignals <= 5

\* A window whose MACD line is well off zero, with other checks firing.
C28_Witness ==
    /\ WindowReturned
    /\ fnOut.indicators.macd.macd > 5
    /\ fnOut.indicators.macd.histogram = 0
    /\ Len(fnOut.ruleBasedSignals.reasoning) >= 2

\* C24 as stated: calculateVolatility depends only on the most recent
\* period + 1 = 21 prices: it returns for a window what it returns for the last
\* 21 prices of that window.
C24_AsStated ==
    WindowReturned =>
        LET prices == [i \in 1..Len(fnIn.marketData) |-> fnIn.marketData[i].price]
        IN  fnOut.calculateVolatility = calculateVolatility(LastOf(prices, 21), 20)

(***************************************************************************)
(* evaluateModel on its own: SpecEvaluate.                                 *)
(*                                                                         *)
(* The input is what AsyncStorage holds under predictions_<symbol>: no     *)
(* item, an item JSON.parse rejects, an item that is not an array, or an   *)
(* array of prediction records.  storePrediction writes every record with  *)
(* actualOutcome null; a record is resolved by whoever writes 'CALL' or    *)
(* 'PUT' there.  A ratio of the metrics is counted in units of 1/ConfUnit, *)
(* the Sharpe ratio in thousandths; a return in tenths (0.8 and -1.0).  In *)
(* a record of these logs the outcome is written as its JSON text.         *)
(***************************************************************************)
MaxLog == 4


ZeroMetrics ==
    [ accuracy |-> 0, precision |-> 0, recall |-> 0, f1Score |-> 0,
      sharpeRatio |-> 0, winRate |-> 0, totalTrades |-> 0, profitableTrades |-> 0 ]

\* A variant of evaluateModel to try the checks against: every stored array
\* counts as trades, resolved or not.
EvaluateVariant(stored) ==
    [ZeroMetrics EXCEPT !.totalTrades = Len(ItemsOf(stored))]

\* x / y || 0 on counts: 0 / 0 is NaN, and NaN || 0 is 0.
RatioOrZero(x, y) == IF y = 0 THEN 0 ELSE (x * ConfUnit) \div y

\* Whether ((0.8 + 0.8) + ... + 0.8) / n, n terms added from 0 in IEEE doubles,
\* is the double 0.8: it is for 1, 2, 4 and 5 terms and is not for 3 and for 6
\* to 12 (0.8000000000000002 for 3, 0.7999999999999999 from 6 on).
MeanOfWinsIsExact(n) == n \in {1, 2, 4, 5}

\* avgReturn / Math.sqrt(variance) when the variance is the square of one
\* rounding error, 1.2e-32: about 7.2e15.
HugeRatio == 2 * 1000 * 1000 * 1000

\* The Sharpe ratio of `wins` returns of 0.8 and `losses` returns of -1.0.
SharpeRatio(wins, losses) ==
    LET n == wins + losses
        sum == 8 * wins - 10 * losses
        squares == 64 * wins + 100 * losses
        spread == n * squares - sum * sum
    IN  IF spread > 0 THEN (sum * 1000 * 100) \div Sqrt(spread * 100 * 100)
        ELSE IF losses = 0 /\ ~MeanOfWinsIsExact(n) THEN HugeRatio
        ELSE 0

evaluateModel(stored) ==
    IF stored.kind \in {"unparsable", "object"} THEN ZeroMetrics
    ELSE LET predictions == ItemsOf(stored)
             completed == {i \in DOMAIN predictions : predictions[i].actualOutcome # JsonNull}
             Count(prediction, actualOutcome) ==
                 Cardinality({i \in completed :
                                /\ predictions[i].prediction = prediction
                                /\ predictions[i].actualOutcome = actualOutcome})
             correct ==
                 Cardinality({i \in completed :
                                predictions[i].prediction = predictions[i].actualOutcome})
             truePositives == Count("CALL", "CALL")
             falsePositives == Count("CALL", "PUT")
             falseNegatives == Count("PUT", "CALL")
             precision == RatioOrZero(truePositives, truePositives + falsePositives)
             recall == RatioOrZero(truePositives, truePositives + falseNegatives)
         IN  IF Len(predictions) = 0 \/ completed = {} THEN ZeroMetrics
             ELSE [ accuracy |-> (correct * ConfUnit) \div Cardinality(completed),
                    precision |-> precision,
                    recall |-> recall,
                    f1Score |-> IF precision + recall = 0 THEN 0
                                ELSE (2 * precision * recall) \div (precision + recall),
                    sharpeRatio |-> SharpeRatio(correct, Cardinality(completed) - correct),
                    winRate |-> (correct * ConfUnit) \div Cardinality(completed),
                    totalTrades |-> Cardinality(completed),
                    profitableTrades |-> correct ]

LogEntries ==
    { [prediction |-> prediction, actualOutcome |-> actualOutcome] :
        prediction \in {"CALL", "PUT"}, actualOutcome \in {JsonNull, "CALL", "PUT"} }

RECURSIVE LogsOfLength(_)
LogsOfLength(n) ==
    IF n = 0 THEN {<<>>}
    ELSE { Append(log, entry) : log \in LogsOfLength(n - 1), entry \in LogEntries }

StoredLogs ==
    {AbsentItem, UnparsableItem, EmptyObjectItem}
      \cup { ArrayItem(log) : log \in UNION { LogsOfLength(n) : n \in 0..MaxLog } }

InitEvaluate ==
    /\ fnPc = "idle"
    /\ fnIn = NoInput
    /\ fnOut = NoOutput
    /\ SignalAtRest
    /\ ModelAtRest
    /\ EngineAtRest

EvaluateCall ==
    /\ fnPc = "idle"
    /\ \E stored \in StoredLogs : fnIn' = [kind |-> "evaluate", stored |-> stored]
    /\ fnPc' = "reading"
    /\ UNCHANGED <<fnOut, sigVars, mdlVars, engVars>>

\* The body of evaluateModel after `await AsyncStorage.getItem(key)`; the catch
\* returns the zero metrics, so the promise never rejects.
EvaluateReturn ==
    /\ fnPc = "reading"
    /\ fnOut' = [threw |-> FALSE, metrics |-> evaluateModel(fnIn.stored)]
    /\ fnPc' = "returned"
    /\ UNCHANGED <<fnIn, sigVars, mdlVars, engVars>>

NextEvaluate == EvaluateCall \/ EvaluateReturn

SpecEvaluate == InitEvaluate /\ [][NextEvaluate]_vars

(***************************************************************************)
(* Properties of SpecEvaluate.                                             *)
(***************************************************************************)
EvaluateReturned == fnPc = "returned" /\ fnIn.kind = "evaluate"

\* The indexes of the resolved entries of the log handed over.
Resolved ==
    {i \in DOMAIN ItemsOf(fnIn.stored) : ItemsOf(fnIn.stored)[i].actualOutcome # JsonNull}
ResolvedWith(prediction, actualOutcome) ==
    {i \in Resolved : /\ ItemsOf(fnIn.stored)[i].prediction = prediction
                      /\ ItemsOf(fnIn.stored)[i].actualOutcome = actualOutcome}

\* C14: with no stored log, an empty log or a log without a resolved entry,
\* evaluateModel returns the all-zero metrics and does not throw.
C14_ZeroMetrics ==
    (EvaluateReturned /\ fnIn.stored.kind \in {"absent", "array"} /\ Resolved = {}) =>
        /\ ~fnOut.threw
        /\ fnOut.metrics = ZeroMetrics

\* A log of several entries, CALL and PUT among them, none resolved.
C14_Witness ==
    /\ EvaluateReturned
    /\ fnIn.stored.kind = "array"
    /\ Len(fnIn.stored.items) >= 2
    /\ Resolved = {}
    /\ \E i, j \in DOMAIN fnIn.stored.items :
         fnIn.stored.items[i].prediction # fnIn.stored.items[j].prediction
    /\ fnOut.metrics = ZeroMetrics

\* C15 as stated: only resolved entries count; totalTrades is their number,
\* profitableTrades the number of those whose prediction equals the outcome,
\* accuracy = winRate = profitableTrades / totalTrades, precision =
\* TP / (TP + FP) and recall = TP / (TP + FN) with CALL positive (0 on a zero
\* denominator), and the Sharpe ratio is 0 when the resolved entries are all
\* correct or all incorrect.
C15_AsStated ==
    (EvaluateReturned /\ fnIn.stored.kind = "array") =>
        LET m == fnOut.metrics
            tp == Cardinality(ResolvedWith("CALL", "CALL"))
            fp == Cardinality(ResolvedWith("CALL", "PUT"))
            fn == Cardinality(ResolvedWith("PUT", "CALL"))
        IN  /\ m.totalTrades = Cardinality(Resolved)
            /\ m.profitableTrades
                 = Cardinality(ResolvedWith("CALL", "CALL") \cup ResolvedWith("PUT", "PUT"))
            /\ 0 <= m.profitableTrades /\ m.profitableTrades <= m.totalTrades
            /\ m.totalTrades > 0 =>
                 /\ m.accuracy * m.totalTrades = m.profitableTrades * ConfUnit
                 /\ m.winRate = m.accuracy
            /\ m.precision * (tp + fp) = tp * ConfUnit
            /\ tp + fp = 0 => m.precision = 0
            /\ m.recall * (tp + fn) = tp * ConfUnit
            /\ tp + fn = 0 => m.recall = 0
            /\ (m.profitableTrades = m.totalTrades \/ m.profitableTrades = 0) =>
                 m.sharpeRatio = 0

(***************************************************************************)
(* SpecForward: forwardPropagate on networks of one or two hidden layers.  *)
(* The hidden activation is relu or tanh, whose values are in the unit of  *)
(* the inputs (1/FeatUnit); the weights are whole numbers.                 *)
(***************************************************************************)
ForwardArchitectures ==
    { [ inputSize |-> 2, hiddenLayers |-> h, outputSize |-> 1,
        activationFunction |-> f, epochs |-> ModelEpochs ]
      : h \in {<<2>>, <<2, 2>>}, f \in {"relu", "tanh"} }

ForwardVectors == { <<a, b>> : a, b \in {0 - 50, 0, 50} }

ForwardInputs ==
    { [kind |-> "forward", model |-> NewModel(arch, seed), input |-> input]
      : arch \in ForwardArchitectures, seed \in Seeds, input \in ForwardVectors }

InitForward ==
    /\ fnPc = "idle"
    /\ fnIn = NoInput
    /\ fnOut = NoOutput
    /\ SignalAtRest
    /\ ModelAtRest
    /\ EngineAtRest

ForwardCall ==
    /\ fnPc = "idle"
    /\ \E input \in ForwardInputs : fnIn' = input
    /\ fnPc' = "called"
    /\ UNCHANGED <<fnOut, sigVars, mdlVars, engVars>>

ForwardReturn ==
    /\ fnPc = "called"
    /\ fnOut' = forwardPropagate(fnIn.model, fnIn.input)
    /\ fnPc' = "returned"
    /\ UNCHANGED <<fnIn, sigVars, mdlVars, engVars>>

NextForward == ForwardCall \/ ForwardReturn

SpecForward == InitForward /\ [][NextForward]_vars

ForwardReturned == fnPc = "returned" /\ fnIn.kind = "forward"

\* C23 as stated: forwardPropagate returns the sums and the activations of
\* every layer, the input first; the activation of a hidden layer is the
\* configured function of its sum and that of the output layer the sigmoid;
\* and the sums of every layer after the first are the weighted sums of the
\* activations of the layer before plus the bias, so that with relu a hidden
\* neuron whose sum is negative contributes 0.
C23_AsStated ==
    ForwardReturned =>
        LET model == fnIn.model
            last == Len(model.weights) - 1
        IN  /\ Len(fnOut.outputs) = Len(model.weights) + 1
            /\ Len(fnOut.activations) = Len(model.weights) + 1
            /\ fnOut.outputs[1] = fnIn.input
            /\ fnOut.activations[1] = fnIn.input
            /\ \A layer \in 0..last :
                 /\ fnOut.activations[layer + 2] =
                      [ n \in 1..Len(fnOut.outputs[layer + 2]) |->
                          activate(fnOut.outputs[layer + 2][n],
                                   IF layer = last THEN "sigmoid"
                                   ELSE model.architecture.activationFunction) ]
                 /\ fnOut.outputs[layer + 2] =
                      LayerOutput(model, layer, fnOut.activations[layer + 1])

(***************************************************************************)
(* SpecEpochs: trainModel on instances whose architecture asks for enough  *)
(* epochs for the early stop to be possible.                               *)
(***************************************************************************)
EpochCounts == {21, 22, 25}

InitEpochs ==
    /\ mdlPc = "ready"
    /\ \E seed \in Seeds, epochs \in EpochCounts :
         mdl = NewModel([ModelArchitecture EXCEPT !.epochs = epochs], seed)
    /\ mdlItem = AbsentItem
    /\ mdlSaved = NoModel
    /\ mdlThrew = FALSE
    /\ mdlLoad = NoLoad
    /\ SignalAtRest /\ EngineAtRest /\ FunctionsAtRest

SpecEpochs == InitEpochs /\ [][ModelTrain]_vars

\* The mean validation loss of the last 5 of the first k epochs is greater
\* than the mean of the 5 before them (the means in fifths of 1/FeatUnit).
LossTrendsUp(history, k) ==
    JsGt(JsDiv(SumValidationLoss(history, k - 4, k), 5, 5),
         JsDiv(SumValidationLoss(history, k - 9, k - 5), 5, 5))

\* C22 as stated: the history trainModel leaves has at most `epochs` entries;
\* no epoch from the 21st (1-based) on but the last recorded one ends with
\* the mean validation loss of the last 5 epochs above the mean of the 5
\* before them; and when fewer than `epochs` epochs ran, the last one is the
\* 21st or later and ends so.  The model saved is the one with that history.
C22_AsStated ==
    (mdlPc = "saved" /\ ~mdlThrew) =>
        LET history == mdl.trainingHistory
            n == Len(history)
        IN  /\ n <= mdl.architecture.epochs
            /\ \A k \in 21..(n - 1) : ~LossTrendsUp(history, k)
            /\ n < mdl.architecture.epochs => (n >= 21 /\ LossTrendsUp(history, n))
            /\ mdlSaved = mdl

(***************************************************************************)
(* Further properties of the engine (Spec).                                *)
(***************************************************************************)
\* The ids of the records of every prediction log.
LoggedIds ==
    UNION { { ItemsOf(predictionLog[s])[i].id : i \in DOMAIN ItemsOf(predictionLog[s]) }
            : s \in DOMAIN predictionLog }

\* Call c returns null in this step.
ReturnsNull(c) ==
    /\ calls[c].pc # "done"
    /\ calls'[c].pc = "done"
    /\ calls'[c].result.kind # "signal"

\* C26: a generateTradingSignal call that returns null (empty history, no
\* current bar, no model, dead zone, internal error) starts no storePrediction
\* and no record of it is ever in a prediction log; the step in which it
\* returns leaves every prediction log, every model instance, the stored
\* models and the weights of the basic network as they were; and every record
\* a call has logged is the record of a call that returned a signal.
C26_NullReturnsNothing ==
    /\ [](\A c \in 1..MaxCalls :
            /\ (calls[c].pc = "done" /\ calls[c].result.kind # "signal") =>
                 (storeTasks[c] = NoStoreTask /\ c \notin LoggedIds)
            /\ c \in LoggedIds =>
                 (calls[c].pc = "done" /\ calls[c].result.kind = "signal"))
    /\ [][\A c \in 1..MaxCalls :
            ReturnsNull(c) =>
              /\ storeTasks'[c] = NoStoreTask
              /\ UNCHANGED <<predictionLog, mlModels, modelWeights, modelItems>>]_vars

C26_Witness ==
    /\ calls[1].pc = "done" /\ calls[1].cause = "dead zone"
    /\ calls[2].pc = "done" /\ calls[2].result.kind = "signal"
    /\ storeTasks[2].pc = "done"
    /\ LoggedIds = {0, 2}

StoredLengths == {MaxPredictions - 2, MaxPredictions - 1, MaxPredictions, MaxPredictions + 1}

FilledLog(n) == [i \in 1..n |-> [OldRecord EXCEPT !.id = i - n]]

InitStore ==
    /\ engine = "basic"
    /\ symbols = SubSeq(SupportedSymbols, 1, 1)
    /\ mlModels = [s \in {} |-> NoModel]
    /\ modelWeights \in DOMAIN InitialWeights
    /\ initNext = Len(symbols) + 1
    /\ lastTraining = [s \in RegistrySymbols |-> NoStamp]
    /\ retrainTask = IdleRetrain
    /\ isTraining = FALSE
    /\ \E n \in StoredLengths :
         predictionLog = [s \in CallerSymbols |-> ArrayItem(FilledLog(n))]
    /\ modelItems = [s \in RegistrySymbols |-> AbsentItem]
    /\ calls = [c \in 1..MaxCalls |-> IdleCall]
    /\ storeTasks = [c \in 1..MaxCalls |-> NoStoreTask]
    /\ cleanTask = IdleClean
    /\ trainCalls = [t \in 1..MaxTrainCalls |-> IdleTrainCall]
    /\ SignalAtRest /\ ModelAtRest /\ FunctionsAtRest

NextStore ==
    \/ \E c \in 1..MaxCalls, symbol \in CallerSymbols : CallGenerate(c, symbol)
    \/ \E c \in 1..MaxCalls : GenFetch(c)
    \/ \E c \in 1..MaxCalls : StoreRead(c)
    \/ \E c \in 1..MaxCalls : StoreWrite(c)

SpecStore == InitStore /\ [][NextStore]_vars

\* The last Len(kept) entries of `pushed` are the entries of `kept`, in order.
IsTailOf(kept, pushed) ==
    /\ Len(kept) <= Len(pushed)
    /\ \A i \in 1..Len(kept) : kept[i] = pushed[Len(pushed) - Len(kept) + i]

\* C30: a storePrediction that has read the log keeps of the log with its
\* record pushed all records if they are at most 1000 and the last 1000
\* otherwise, in their order; and when its setItem completes the log of its
\* symbol is that array: at most 1000 records, the new record last.
C30_Cap ==
    [][\A c \in 1..MaxCalls :
         /\ (storeTasks[c].pc = "read" /\ storeTasks'[c].pc = "write") =>
              LET pushed == Append(ItemsOf(predictionLog[storeTasks[c].symbol]),
                                   storeTasks[c].record)
                  kept == storeTasks'[c].predictions
              IN  /\ Len(kept) = IF Len(pushed) > 1000 THEN 1000 ELSE Len(pushed)
                  /\ IsTailOf(kept, pushed)
         /\ (storeTasks[c].pc = "write" /\ storeTasks'[c].pc = "done") =>
              LET log == ItemsOf(predictionLog'[storeTasks[c].symbol])
              IN  /\ log = storeTasks[c].predictions
                  /\ Len(log) <= 1000
                  /\ log[Len(log)] = storeTasks[c].record]_vars

C30_Witness ==
    \E c \in 1..MaxCalls :
        /\ storeTasks[c].pc = "done"
        /\ LET log == ItemsOf(predictionLog[storeTasks[c].symbol])
           IN  /\ Len(log) = 1000
               /\ log[1000].id = c
               /\ log[1].id = 0 - 998

(***************************************************************************)
(* SpecPair: one engine with the first two symbols of the list, two        *)
(* generateTradingSignal calls and one trainModels call, each for one of   *)
(* the symbols the engine keeps parameters for (names in mlModels, tickers *)
(* in modelWeights).                                                       *)
(***************************************************************************)
PairSymbols == IF engine = "enhanced" THEN RegistrySymbols ELSE WeightSymbols

InitialLog(s) == IF s \in RegistrySymbols THEN ArrayItem(<<OldRecord>>) ELSE AbsentItem

InitPair ==
    /\ engine \in Engines
    /\ symbols = SubSeq(SupportedSymbols, 1, 2)
    /\ mlModels = [s \in {} |-> NoModel]
    /\ modelWeights \in DOMAIN InitialWeights
    /\ engine = "enhanced" => modelWeights = 1
    /\ initNext = IF engine = "enhanced" THEN 1 ELSE Len(symbols) + 1
    /\ lastTraining = [s \in RegistrySymbols |-> NoStamp]
    /\ retrainTask = IdleRetrain
    /\ isTraining = FALSE
    /\ predictionLog = [s \in CallerSymbols |-> InitialLog(s)]
    /\ modelItems = [s \in RegistrySymbols |-> AbsentItem]
    /\ calls = [c \in 1..MaxCalls |-> IdleCall]
    /\ storeTasks = [c \in 1..MaxCalls |-> NoStoreTask]
    /\ cleanTask = IdleClean
    /\ trainCalls = [t \in 1..MaxTrainCalls |-> IdleTrainCall]
    /\ SignalAtRest /\ ModelAtRest /\ FunctionsAtRest

NextPair ==
    \/ InitializeMLModel
    \/ \E c \in 1..MaxCalls, symbol \in PairSymbols : CallGenerate(c, symbol)
    \/ \E c \in 1..MaxCalls : GenFetch(c)
    \/ \E c \in 1..MaxCalls : GenDecide(c)
    \/ \E c \in 1..MaxCalls : StoreRead(c)
    \/ \E c \in 1..MaxCalls : StoreWrite(c)
    \/ \E argument \in PairSymbols : TrainCall(1, argument)
    \/ TrainFetch(1)
    \/ TrainSave(1)

SpecPair == InitPair /\ [][NextPair]_vars

\* What the engine keeps for symbol s: its model instance, its stored model
\* and its prediction log.
ModelOf(s) == IF s \in DOMAIN mlModels THEN mlModels[s] ELSE NoModel
StoredModelOf(s) == IF s \in DOMAIN modelItems THEN modelItems[s] ELSE AbsentItem

\* This step is a step of an operation for symbol s: of initializeMLModels at
\* s, of a generateTradingSignal(s) call or its storePrediction, or of a
\* trainModels call at s.
StepFor(s) ==
    \/ /\ initNext' # initNext
       /\ getSupportedSymbols[initNext] = s
    \/ \E c \in 1..MaxCalls :
         /\ calls'[c].symbol = s \/ storeTasks[c].symbol = s
         /\ calls'[c] # calls[c] \/ storeTasks'[c] # storeTasks[c]
    \/ \E t \in 1..MaxTrainCalls :
         /\ trainCalls[t].pc \in {"fetching", "saving"}
         /\ trainCalls[t].symbolsToTrain[trainCalls[t].index] = s
         /\ trainCalls'[t] # trainCalls[t]

\* Both calls are for different symbols, returned a signal, and their
\* storePrediction has completed.
BothStored ==
    /\ calls[1].symbol # calls[2].symbol
    /\ \A c \in 1..2 : /\ calls[c].pc = "done"
                       /\ calls[c].result.kind = "signal"
                       /\ storeTasks[c].pc = "done"

\* C21: the model instance, the stored model and the prediction log of a
\* symbol change only in steps of an operation for that symbol, and the
\* weights of the basic network never change; so, however the steps of
\* generateTradingSignal calls and of a trainModels call for different
\* symbols interleave, two calls for different symbols that have stored their
\* signals leave each log as the one call for its symbol alone leaves it: the
\* log it started with and that call's record after it.
C21_PerSymbol ==
    /\ [][/\ \A s \in CallerSymbols :
               (\/ ModelOf(s)' # ModelOf(s)
                \/ StoredModelOf(s)' # StoredModelOf(s)
                \/ predictionLog'[s] # predictionLog[s]) => StepFor(s)
          /\ UNCHANGED modelWeights]_vars
    /\ [](BothStored =>
            \A c \in 1..2 :
                ItemsOf(predictionLog[calls[c].symbol]) =
                    Append(ItemsOf(InitialLog(calls[c].symbol)), storeTasks[c].record))

C21_Witness ==
    /\ BothStored
    /\ \A c \in 1..2 :
         LET log == ItemsOf(predictionLog[calls[c].symbol])
         IN  log # <<>> /\ log[Len(log)].id = c

(***************************************************************************)
(* SpecTraining: the enhanced engine with two symbols, its trainModels     *)
(* calls and one autoRetrainModels call at a time.  SpecTrainingFair adds  *)
(* that an awaited fetch or setItem settles and the call waiting for it    *)
(* goes on.                                                                *)
(***************************************************************************)
\* daysSinceTraining > 7; without an item lastTrainingTime is 0.
Stale(stamp) == stamp \in {NoStamp, "old"}

\* What a step of autoRetrainModels that calls no trainModels leaves alone.
RetrainFrame ==
    UNCHANGED <<symbols, engine, mlModels, modelWeights, initNext, predictionLog,
                modelItems, calls, storeTasks, cleanTask, sigVars, mdlVars, fnVars>>

\* The next symbol of the loop of autoRetrainModels, or its end.
RetrainAdvance(task) ==
    IF task.index < Len(symbols)
    THEN [pc |-> "read", index |-> task.index + 1, call |-> 0]
    ELSE IdleRetrain

\* autoRetrainModels(): the loop awaits getItem of its first symbol.
RetrainCall ==
    /\ engine = "enhanced"
    /\ retrainTask.pc = "idle"
    /\ retrainTask' = [pc |-> "read", index |-> 1, call |-> 0]
    /\ RetrainFrame
    /\ UNCHANGED <<lastTraining, isTraining, trainCalls>>

\* getItem settles.  Rejected: the catch ends the call.  A stamp of the last
\* 7 days: next symbol.  Else trainModels(symbol) is called and awaited; if it
\* throws 'Training already in progress' the catch ends the call.
RetrainRead ==
    /\ retrainTask.pc = "read"
    /\ LET symbol == getSupportedSymbols[retrainTask.index]
       IN  \E ok \in BOOLEAN :
             IF ~ok
             THEN /\ retrainTask' = IdleRetrain
                  /\ RetrainFrame
                  /\ UNCHANGED <<isTraining, trainCalls>>
             ELSE IF ~Stale(lastTraining[symbol])
             THEN /\ retrainTask' = RetrainAdvance(retrainTask)
                  /\ RetrainFrame
                  /\ UNCHANGED <<isTraining, trainCalls>>
             ELSE \E t \in 1..MaxTrainCalls :
                  /\ TrainStart(t, symbol)
                  /\ retrainTask' = IF trainCalls'[t].pc = "rejected" THEN IdleRetrain
                                    ELSE [retrainTask EXCEPT !.pc = "training",
                                                             !.call = t]
    /\ UNCHANGED lastTraining

\* The awaited trainModels has returned its results: setItem is awaited.
RetrainAwait ==
    /\ retrainTask.pc = "training"
    /\ trainCalls[retrainTask.call].pc = "done"
    /\ retrainTask' = [retrainTask EXCEPT !.pc = "write"]
    /\ RetrainFrame
    /\ UNCHANGED <<lastTraining, isTraining, trainCalls>>

\* setItem(`last_training_${symbol}`, Date.now().toString()) settles.
RetrainWrite ==
    /\ retrainTask.pc = "write"
    /\ \E ok \in BOOLEAN :
         IF ok
         THEN /\ lastTraining' =
                   [lastTraining EXCEPT ![getSupportedSymbols[retrainTask.index]] = "now"]
              /\ retrainTask' = RetrainAdvance(retrainTask)
         ELSE /\ retrainTask' = IdleRetrain
              /\ UNCHANGED lastTraining
    /\ RetrainFrame
    /\ UNCHANGED <<isTraining, trainCalls>>

InitTraining ==
    /\ engine = "enhanced"
    /\ symbols = SubSeq(SupportedSymbols, 1, 2)
    /\ \E stamp \in Stamps : lastTraining = [s \in RegistrySymbols |-> stamp]
    /\ retrainTask = IdleRetrain
    /\ mlModels = [s \in {} |-> NoModel]
    /\ modelWeights = 1
    /\ initNext = 1
    /\ isTraining = FALSE
    /\ predictionLog = [s \in CallerSymbols |-> InitialLog(s)]
    /\ modelItems \in [RegistrySymbols -> InitialModelItems]
    /\ modelItems[getSupportedSymbols[2]] = AbsentItem
    /\ calls = [c \in 1..MaxCalls |-> IdleCall]
    /\ storeTasks = [c \in 1..MaxCalls |-> NoStoreTask]
    /\ cleanTask = IdleClean
    /\ trainCalls = [t \in 1..MaxTrainCalls |-> IdleTrainCall]
    /\ SignalAtRest /\ ModelAtRest /\ FunctionsAtRest

NextTraining ==
    \/ InitializeMLModel
    \/ \E t \in 1..MaxTrainCalls, argument \in {"all"} \cup RegistrySymbols :
         TrainCall(t, argument)
    \/ \E t \in 1..MaxTrainCalls : TrainFetch(t)
    \/ \E t \in 1..MaxTrainCalls : TrainSave(t)
    \/ RetrainCall
    \/ RetrainRead
    \/ RetrainAwait
    \/ RetrainWrite

SpecTraining == InitTraining /\ [][NextTraining]_vars

SpecTrainingFair ==
    /\ SpecTraining
    /\ \A t \in 1..MaxTrainCalls : WF_vars(TrainFetch(t)) /\ WF_vars(TrainSave(t))

\* C29 as stated: autoRetrainModels writes last_training_<symbol> only after
\* the trainModels call it awaited for that symbol has completed with metrics
\* for the symbol; a call that was rejected, or that trained nothing because
\* the data was insufficient or the model missing, leaves the stamp as it was.
C29_AsStated ==
    [][\A s \in RegistrySymbols :
         lastTraining'[s] # lastTraining[s] =>
           /\ retrainTask.call \in 1..MaxTrainCalls
           /\ trainCalls[retrainTask.call].pc = "done"
           /\ s \in trainCalls[retrainTask.call].results]_vars

\* C25: an accepted trainModels call that awaits a fetch or a save is
\* eventually done; an accepted call ends in no other way than done (it never
\* throws), and the step that ends it resets isTraining; isTraining is set
\* exactly while an accepted call is in flight; and a call made while none is
\* in flight is accepted.
C25_Completes ==
    /\ \A t \in 1..MaxTrainCalls :
         (trainCalls[t].pc \in {"fetching", "saving"}) ~> (trainCalls[t].pc = "done")
    /\ [](isTraining <=> TrainingRuns # {})
    /\ [][\A t \in 1..MaxTrainCalls :
            /\ (trainCalls[t].pc \in {"fetching", "saving"} /\ trainCalls'[t] # trainCalls[t]) =>
                 /\ trainCalls'[t].pc \in {"fetching", "saving", "done"}
                 /\ trainCalls'[t].pc = "done" => ~isTraining'
            /\ (trainCalls[t].pc = "idle" /\ trainCalls'[t].pc # "idle" /\ TrainingRuns = {}) =>
                 (trainCalls'[t].pc = "fetching" /\ isTraining')]_vars

C25_Witness ==
    /\ trainCalls[1].pc = "done"
    /\ trainCalls[1].results # {}
    /\ trainCalls[2].pc = "fetching"
    /\ isTraining

============================================================================
